---- MODULE Spec2Model ----
(***************************************************************************)
(* Model of the workflow engine of src/workflow.py: the Workflow class     *)
(* (codec, traversal loop, step executor, condition evaluator and the      *)
(* interactive confirmation gate), and of CLIAssistant.safe_api_call of     *)
(* src/main.py.                                                            *)
(*                                                                         *)
(* Python values that reach a result record are modelled as records        *)
(* [ty, v]; identifiers are strings and the Python None of an identifier   *)
(* is the token None.  A condition string is modelled by its shape:        *)
(*   op = "None"  the condition is None (no guard)                         *)
(*   op = "lit"   the text a, "True" or "False"                            *)
(*   op = "ref"   "{a.b}"                                                  *)
(*   op = "not"   "not {a.b}"                                              *)
(*   op = "len"   "len({a.b}) > 0"                                         *)
(*   op = "bad"   the text a, an expression whose evaluation raises        *)
(***************************************************************************)
EXTENDS Integers, Sequences, FiniteSets, TLC

VARIABLES name, description, steps, start_step, results, interactive_mode,
          files, pc, current_step_id, start_from, trace, outcome, doc, encoded,
          runs,
          max_retries, retry_delay, attempt, api_pc, api_result, calls, slept,
          model, ctl_steps, step_keys, step_order, context_variables,
          context_results,
          ctl_pc, ctl_index, ctl_results, ctl_trace, dependencies,
          added, answers

\* the frame of one safe_api_call: its parameters, its loop variable, where
\* it stands (idle, try, returned, raised), what it returned or raised, the
\* outcomes of its call_func invocations and the waits handed to time.sleep
apivars == <<max_retries, retry_delay, attempt, api_pc, api_result, calls, slept>>

\* added is the history of the add_step calls on the Workflow: the
\* identifier and the step of each call, in order; answers is the history
\* of the pending confirmation: the last inputs it has read and asked again
\* after
wfvars == <<name, description, steps, start_step, results, interactive_mode,
            files, pc, current_step_id, start_from, trace, outcome, doc, encoded,
            runs, added, answers>>

\* one WorkflowController: its model, steps and step_order, the variables
\* and results of its context, where its execute() stands (none before the
\* constructor, ready, running, returned, raised), the position of execute()
\* in step_order and the results it is collecting; ctl_trace is the history
\* of that execute(): for each step executed, its identifier and the files
\* and context variables it found; dependencies is the list handed to
\* optimize_step_order, after which ctl_pc is ordered or order_failed;
\* step_keys is the order in which the dict self.steps keeps its keys
ctlvars == <<model, ctl_steps, step_keys, step_order, context_variables,
             context_results,
             ctl_pc, ctl_index, ctl_results, ctl_trace, dependencies>>

vars == <<name, description, steps, start_step, results, interactive_mode,
          files, pc, current_step_id, start_from, trace, outcome, doc, encoded,
          runs,
          max_retries, retry_delay, attempt, api_pc, api_result, calls, slept,
          model, ctl_steps, step_keys, step_order, context_variables,
          context_results,
          ctl_pc, ctl_index, ctl_results, ctl_trace, dependencies,
          added, answers>>

\* ------------------------------------------------------------------ bounds
\* steps processed in one execute() call
MaxVisits == 5
\* execute() calls on one Workflow instance
MaxRuns == 2
\* add_step calls on one Workflow instance
MaxAdds == 3
\* inputs of the pending confirmation that its history keeps
MaxPrompts == 1
\* dependencies in the list handed to optimize_step_order
MaxDeps == 3

\* ------------------------------------------------------------ Python values
None == "None"

PyStr(s) == [ty |-> "str", v |-> s]
PyBool(b) == [ty |-> "bool", v |-> IF b THEN "True" ELSE "False"]
PyNone == [ty |-> "NoneType", v |-> "None"]

CodeTexts == {"c0", "c1", "c2"}
InputTexts == {"", "x"}

\* the lines entered at the confirmation gate before the line END
EditLines == {<<>>, <<"">>, <<"c1", "c2">>}

\* "\n".join(lines)
RECURSIVE JoinLines(_)
JoinLines(lines) ==
  IF Len(lines) = 0 THEN ""
  ELSE IF Len(lines) = 1 THEN lines[1]
  ELSE lines[1] \o "\n" \o JoinLines(Tail(lines))

PyValues == {PyNone, PyBool(TRUE), PyBool(FALSE)}
              \cup {PyStr(s) : s \in CodeTexts \cup InputTexts}
              \cup {PyStr(JoinLines(lines)) : lines \in EditLines}

\* bool(value)
Truthy(val) ==
  CASE val.ty = "NoneType" -> FALSE
    [] val.ty = "bool" -> val.v = "True"
    [] OTHER -> val.v # ""

\* the escapes of repr: a line break is written as backslash, n
RECURSIVE Escaped(_)
Escaped(text) ==
  IF Len(text) = 0 THEN ""
  ELSE (IF SubSeq(text, 1, 1) = "\n" THEN "\\n" ELSE SubSeq(text, 1, 1))
         \o Escaped(SubSeq(text, 2, Len(text)))

\* repr(value): the text of the literal
Repr(val) ==
  CASE val.ty = "str" -> "'" \o Escaped(val.v) \o "'"
    [] OTHER -> val.v

IdToPy(id) == IF id = None THEN PyNone ELSE PyStr(id)
PyToId(val) == IF val.ty = "NoneType" THEN None ELSE val.v

\* dict.get(key, default)
Get(d, key, default) == IF key \in DOMAIN d THEN d[key] ELSE default

\* -------------------------------------------------------- condition strings
NoCond == [op |-> "None", a |-> "", b |-> ""]
Lit(text) == [op |-> "lit", a |-> text, b |-> ""]
Ref(id, key) == [op |-> "ref", a |-> id, b |-> key]
NotRef(id, key) == [op |-> "not", a |-> id, b |-> key]
LenRef(id, key) == [op |-> "len", a |-> id, b |-> key]
Bad == [op |-> "bad", a |-> "1/0", b |-> ""]

\* mutant: a placeholder whose step or field is absent is left as a lookup
ReplaceVar_LooksUpAbsent(cond, res) ==
  IF cond.a \in DOMAIN res /\ cond.b \in DOMAIN res[cond.a]
  THEN Repr(res[cond.a][cond.b])
  ELSE "results['" \o cond.a \o "']['" \o cond.b \o "']"

\* replace_var: the text substituted for the placeholder {a.b}
ReplaceVar(cond, res) ==
  IF cond.a \in DOMAIN res /\ cond.b \in DOMAIN res[cond.a]
  THEN Repr(res[cond.a][cond.b])
  ELSE "None"

\* re.sub(pattern, replace_var, condition): the text handed to eval
EvalCondition(cond, res) ==
  CASE cond.op = "ref" -> ReplaceVar(cond, res)
    [] cond.op = "not" -> "not " \o ReplaceVar(cond, res)
    [] cond.op = "len" -> "len(" \o ReplaceVar(cond, res) \o ") > 0"
    [] OTHER -> cond.a

IsLiteral(text) == \E val \in PyValues : Repr(val) = text
LiteralValue(text) == CHOOSE val \in PyValues : Repr(val) = text

\* eval(text): [raised, value, msg]
PyEval(text) ==
  IF IsLiteral(text)
  THEN [raised |-> FALSE, value |-> LiteralValue(text), msg |-> ""]
  ELSE IF \E val \in PyValues : text = "not " \o Repr(val)
  THEN [raised |-> FALSE,
        value |-> PyBool(~Truthy(CHOOSE val \in PyValues : text = "not " \o Repr(val))),
        msg |-> ""]
  ELSE IF \E val \in PyValues : text = "len(" \o Repr(val) \o ") > 0"
  THEN LET val == CHOOSE w \in PyValues : text = "len(" \o Repr(w) \o ") > 0"
       IN IF val.ty = "str"
          THEN [raised |-> FALSE, value |-> PyBool(val.v # ""), msg |-> ""]
          ELSE [raised |-> TRUE, value |-> PyNone,
                msg |-> "object of type '" \o val.ty \o "' has no len()"]
  ELSE [raised |-> TRUE, value |-> PyNone, msg |-> "division by zero"]

\* mutant: the error record replaces the record of the step
EvaluateCondition_Overwrites(cond, step_id, res) ==
  LET e == PyEval(EvalCondition(cond, res))
  IN IF ~e.raised
     THEN [value |-> Truthy(e.value), results |-> res]
     ELSE [value |-> FALSE,
           results |-> IF step_id # None
                       THEN (step_id :> [error |-> PyStr(e.msg)]) @@ res
                       ELSE res]

\* mutant: a condition whose evaluation raises counts as satisfied
EvaluateCondition_FailsOpen(cond, step_id, res) ==
  LET e == PyEval(EvalCondition(cond, res))
  IN IF ~e.raised
     THEN [value |-> Truthy(e.value), results |-> res]
     ELSE [value |-> TRUE,
           results |-> IF step_id # None
                       THEN (step_id :> (("error" :> PyStr(e.msg)) @@ Get(res, step_id, <<>>))) @@ res
                       ELSE res]

\* _evaluate_condition(condition, step_id): [value, results]; step_id = None
\* stands for the call without step_id
EvaluateCondition(cond, step_id, res) ==
  LET e == PyEval(EvalCondition(cond, res))
  IN IF ~e.raised
     THEN [value |-> Truthy(e.value), results |-> res]
     ELSE [value |-> FALSE,
           results |-> IF step_id # None
                       THEN (step_id :> (("error" :> PyStr(e.msg)) @@ Get(res, step_id, <<>>))) @@ res
                       ELSE res]
\* ------------------------------------------------------------- step types
\* WorkflowStepType(value): the member with that value
WorkflowStepType(value) ==
  CASE value = "code_generation" -> "CODE_GENERATION"
    [] value = "code_editing" -> "CODE_EDITING"
    [] value = "code_review" -> "CODE_REVIEW"
    [] value = "code_refactoring" -> "CODE_REFACTORING"
    [] value = "test_generation" -> "TEST_GENERATION"
    [] value = "documentation" -> "DOCUMENTATION"
    [] value = "user_input" -> "USER_INPUT"
    [] value = "file_operation" -> "FILE_OPERATION"
    [] value = "conditional" -> "CONDITIONAL"
    [] value = "loop" -> "LOOP"

\* member.value
StepTypeValue(member) ==
  CASE member = "CODE_GENERATION" -> "code_generation"
    [] member = "CODE_EDITING" -> "code_editing"
    [] member = "CODE_REVIEW" -> "code_review"
    [] member = "CODE_REFACTORING" -> "code_refactoring"
    [] member = "TEST_GENERATION" -> "test_generation"
    [] member = "DOCUMENTATION" -> "documentation"
    [] member = "USER_INPUT" -> "user_input"
    [] member = "FILE_OPERATION" -> "file_operation"
    [] member = "CONDITIONAL" -> "conditional"
    [] member = "LOOP" -> "loop"

\* ------------------------------------------------------------ environment
NoFile == "<no file>"
FileNames == {"f"}

\* a path of the file system holds a text, or is a directory, or is absent;
\* the working directory always exists
IsDir == "<directory>"
Cwd == "."
SlashesOf(path) == {i \in 1..Len(path) : SubSeq(path, i, i) = "/"}
\* os.path.dirname / Path(path).parent
ParentOf(path) ==
  IF SlashesOf(path) = {} THEN Cwd
  ELSE SubSeq(path, 1, (CHOOSE i \in SlashesOf(path) : \A j \in SlashesOf(path) : j <= i) - 1)
DirExists(fs, dir) == dir = Cwd \/ (dir \in DOMAIN fs /\ fs[dir] = IsDir)
\* open(path, "w") does not raise
CanOpenForWrite(fs, path) == DirExists(fs, ParentOf(path)) /\ fs[path] # IsDir

\* the generation service: a response text, or a failure
GenFails == "<generation failed>"
\* a response holding a fenced python block around c1
FencedResponse == "[fence python] c1 [fence]"
PlainResponse == "c2"
GenOutcomes == {FencedResponse, PlainResponse, GenFails}

\* input(): a line, or EOFError
EOF == "<EOF>"
InputOutcomes == InputTexts \cup {EOF}

\* re.search of the fenced block, else the response itself
ExtractCode(response) == IF response = FencedResponse THEN "c1" ELSE response

\* the generation service was not contacted
NoPrompt == "<no prompt>"

\* the outcome of _execute_step: the record returned or the exception raised,
\* the files afterwards, and the text the step put into the prompt of its
\* generate_content call, NoPrompt when it made none
Returned(result, fs) ==
  [raised |-> FALSE, result |-> result, msg |-> "", files |-> fs, prompt |-> NoPrompt]
Raised(msg, fs) ==
  [raised |-> TRUE, result |-> <<>>, msg |-> msg, files |-> fs, prompt |-> NoPrompt]
\* generate_content was called with a prompt built around text
Prompted(text, r) == [r EXCEPT !.prompt = text]
ErrorResult(msg, fs) == Returned([error |-> PyStr(msg)], fs)

UsesGen(step_type) ==
  step_type \in {"CODE_GENERATION", "CODE_EDITING", "CODE_REVIEW",
                 "CODE_REFACTORING", "TEST_GENERATION", "DOCUMENTATION"}

EnvFor(step_type) ==
  IF UsesGen(step_type) THEN [gen : GenOutcomes, input : {EOF}]
  ELSE IF step_type = "USER_INPUT" THEN [gen : {GenFails}, input : InputOutcomes]
  ELSE [gen : {GenFails}, input : {EOF}]

\* the source of the five code-reading step types: [ok, code]
ResolveSource(args, res, fs) ==
  LET filename == Get(args, "filename", None)
      prev == Get(args, "previous_step", None)
  IN IF filename # None
     THEN IF fs[filename] # NoFile
          THEN [ok |-> TRUE, code |-> fs[filename], err |-> ""]
          ELSE [ok |-> FALSE, code |-> "", err |-> "file " \o filename \o " not found"]
     ELSE IF prev # None /\ prev \in DOMAIN res
          THEN [ok |-> TRUE, code |-> Get(res[prev], "code", PyStr("")).v, err |-> ""]
          ELSE [ok |-> FALSE, code |-> "", err |-> "no code given"]
\* the generation call and the code extraction shared by the generating types
Generate(env) == [failed |-> env.gen = GenFails, response |-> env.gen,
                  code |-> ExtractCode(env.gen)]

ExecUserInput(step, res, fs, env) ==
  IF env.input = EOF THEN Raised("EOF when reading a line", fs)
  ELSE Returned([input |-> PyStr(env.input)], fs)

ExecCodeGeneration(step, res, fs, env) ==
  LET g == Generate(env)
  IN Prompted(Get(step.arguments, "task", ""),
       IF g.failed THEN Raised("generation failed", fs)
       ELSE Returned([code |-> PyStr(g.code), full_response |-> PyStr(g.response)], fs))

ExecCodeEditing(step, res, fs, env) ==
  LET args == step.arguments
      filename == Get(args, "filename", None)
      src == ResolveSource(args, res, fs)
      g == Generate(env)
  IN IF ~src.ok THEN ErrorResult(src.err, fs)
     ELSE Prompted(src.code,
       IF g.failed THEN Raised("generation failed", fs)
       ELSE Returned([code |-> PyStr(g.code), original_code |-> PyStr(src.code),
                      full_response |-> PyStr(g.response)],
                     IF filename # None /\ Get(args, "save", FALSE)
                     THEN [fs EXCEPT ![filename] = g.code] ELSE fs))

\* mutant: the write takes the whole response of the previous step
ExecFileOperation_WritesResponse(step, res, fs, env) ==
  LET args == step.arguments
      operation == Get(args, "operation", None)
      filename == Get(args, "filename", None)
      literal == Get(args, "content", None)
      prev == Get(args, "previous_step", None)
      content == IF literal # None /\ literal # "" THEN literal
                 ELSE IF prev # None /\ prev \in DOMAIN res
                 THEN Get(res[prev], "full_response", PyStr("")).v
                 ELSE literal
  IN IF filename = None THEN ErrorResult("no filename given", fs)
     ELSE IF operation = "read"
     THEN IF fs[filename] # NoFile
          THEN Returned([content |-> PyStr(fs[filename])], fs)
          ELSE ErrorResult("file read error", fs)
     ELSE IF operation = "write"
     THEN IF ~CanOpenForWrite(fs, filename)
          THEN ErrorResult("file write error", fs)
          ELSE IF content = None
          THEN ErrorResult("file write error", [fs EXCEPT ![filename] = ""])
          ELSE Returned([filename |-> PyStr(filename), success |-> PyBool(TRUE)],
                        [fs EXCEPT ![filename] = content])
     ELSE ErrorResult("unsupported file operation", fs)

ExecFileOperation(step, res, fs, env) ==
  LET args == step.arguments
      operation == Get(args, "operation", None)
      filename == Get(args, "filename", None)
      literal == Get(args, "content", None)
      prev == Get(args, "previous_step", None)
      content == IF literal # None /\ literal # "" THEN literal
                 ELSE IF prev # None /\ prev \in DOMAIN res
                 THEN Get(res[prev], "code", PyStr("")).v
                 ELSE literal
  IN IF filename = None THEN ErrorResult("no filename given", fs)
     ELSE IF operation = "read"
     THEN IF fs[filename] # NoFile
          THEN Returned([content |-> PyStr(fs[filename])], fs)
          ELSE ErrorResult("file read error", fs)
     ELSE IF operation = "write"
     \* open(filename, "w") raises when the parent directory is missing
     THEN IF ~CanOpenForWrite(fs, filename)
          THEN ErrorResult("file write error", fs)
          \* open(filename, "w") has truncated the file when f.write(None) raises
          ELSE IF content = None
          THEN ErrorResult("file write error", [fs EXCEPT ![filename] = ""])
          ELSE Returned([filename |-> PyStr(filename), success |-> PyBool(TRUE)],
                        [fs EXCEPT ![filename] = content])
     ELSE ErrorResult("unsupported file operation", fs)

\* mutant: the service is asked before the source is resolved
ExecCodeReview_AsksFirst(step, res, fs, env) ==
  LET src == ResolveSource(step.arguments, res, fs)
      g == Generate(env)
  IN Prompted(src.code,
       IF g.failed THEN Raised("generation failed", fs)
       ELSE IF ~src.ok THEN ErrorResult(src.err, fs)
       ELSE Returned([review |-> PyStr(g.response)], fs))

ExecCodeReview(step, res, fs, env) ==
  LET src == ResolveSource(step.arguments, res, fs)
      g == Generate(env)
  IN IF ~src.ok THEN ErrorResult(src.err, fs)
     ELSE Prompted(src.code,
       IF g.failed THEN Raised("generation failed", fs)
       ELSE Returned([review |-> PyStr(g.response)], fs))

ExecCodeRefactoring(step, res, fs, env) ==
  LET src == ResolveSource(step.arguments, res, fs)
      g == Generate(env)
  IN IF ~src.ok THEN ErrorResult(src.err, fs)
     ELSE Prompted(src.code,
       IF g.failed THEN Raised("generation failed", fs)
       ELSE Returned([code |-> PyStr(g.code), original_code |-> PyStr(src.code),
                      full_response |-> PyStr(g.response)], fs))

\* TEST_GENERATION and DOCUMENTATION
ExecCodeFromSource(step, res, fs, env) ==
  LET src == ResolveSource(step.arguments, res, fs)
      g == Generate(env)
  IN IF ~src.ok THEN ErrorResult(src.err, fs)
     ELSE Prompted(src.code,
       IF g.failed THEN Raised("generation failed", fs)
       ELSE Returned([code |-> PyStr(g.code), full_response |-> PyStr(g.response)], fs))

\* mutant: the two branches are exchanged
ExecConditional_Swapped(step, res, fs, env) ==
  IF "condition" \notin DOMAIN step.arguments
  THEN Raised("CONDITIONAL needs condition", fs)
  ELSE LET result == EvaluateCondition(step.arguments.condition, None, res).value
           next_step == IF result THEN step.next_on_failure ELSE step.next_on_success
       IN Returned([condition |-> PyBool(result), next_step |-> IdToPy(next_step)], fs)

ExecConditional(step, res, fs, env) ==
  IF "condition" \notin DOMAIN step.arguments
  THEN Raised("CONDITIONAL needs condition", fs)
  ELSE LET result == EvaluateCondition(step.arguments.condition, None, res).value
           next_step == IF result THEN step.next_on_success ELSE step.next_on_failure
       IN Returned([condition |-> PyBool(result), next_step |-> IdToPy(next_step)], fs)

\* mutant: the loop leaves by the failure successor
ExecLoop_ExitsByFailureEdge(step, res, fs, env) ==
  IF "condition" \notin DOMAIN step.arguments \/ "body_step" \notin DOMAIN step.arguments
  THEN Raised("LOOP needs condition and body_step", fs)
  ELSE IF EvaluateCondition(step.arguments.condition, None, res).value
       THEN Returned([loop |-> PyBool(TRUE), next_step |-> PyStr(step.arguments.body_step)], fs)
       ELSE Returned([loop |-> PyBool(FALSE), next_step |-> IdToPy(step.next_on_failure)], fs)

\* mutant: the body is entered only while it has no record
ExecLoop_RunsBodyOnce(step, res, fs, env) ==
  IF "condition" \notin DOMAIN step.arguments \/ "body_step" \notin DOMAIN step.arguments
  THEN Raised("LOOP needs condition and body_step", fs)
  ELSE IF /\ EvaluateCondition(step.arguments.condition, None, res).value
          /\ step.arguments.body_step \notin DOMAIN res
       THEN Returned([loop |-> PyBool(TRUE), next_step |-> PyStr(step.arguments.body_step)], fs)
       ELSE Returned([loop |-> PyBool(FALSE), next_step |-> IdToPy(step.next_on_success)], fs)

ExecLoop(step, res, fs, env) ==
  IF "condition" \notin DOMAIN step.arguments \/ "body_step" \notin DOMAIN step.arguments
  THEN Raised("LOOP needs condition and body_step", fs)
  ELSE IF EvaluateCondition(step.arguments.condition, None, res).value
       THEN Returned([loop |-> PyBool(TRUE), next_step |-> PyStr(step.arguments.body_step)], fs)
       ELSE Returned([loop |-> PyBool(FALSE), next_step |-> IdToPy(step.next_on_success)], fs)

\* _execute_step(step): [raised, result, msg, files]
ExecuteStep(step, res, fs, env) ==
  CASE step.step_type = "USER_INPUT" -> ExecUserInput(step, res, fs, env)
    [] step.step_type = "CODE_GENERATION" -> ExecCodeGeneration(step, res, fs, env)
    [] step.step_type = "CODE_EDITING" -> ExecCodeEditing(step, res, fs, env)
    [] step.step_type = "FILE_OPERATION" -> ExecFileOperation(step, res, fs, env)
    [] step.step_type = "CODE_REVIEW" -> ExecCodeReview(step, res, fs, env)
    [] step.step_type = "CODE_REFACTORING" -> ExecCodeRefactoring(step, res, fs, env)
    [] step.step_type \in {"TEST_GENERATION", "DOCUMENTATION"} ->
         ExecCodeFromSource(step, res, fs, env)
    [] step.step_type = "CONDITIONAL" -> ExecConditional(step, res, fs, env)
    [] step.step_type = "LOOP" -> ExecLoop(step, res, fs, env)
    [] OTHER -> Raised("unsupported step type", fs)
\* ------------------------------------------------- workflow documents
NoDoc == [name |-> "<no document>"]
StepIds == {"a", "b"}
\* an identifier no document defines
Dangling == "z"

DocStep(kind, cond, nos, nof) ==
  [step_type |-> kind.t, description |-> "d", arguments |-> kind.args,
   condition |-> cond, next_on_success |-> nos, next_on_failure |-> nof]

Doc(start, a, b) ==
  [name |-> "wf", description |-> "two steps", start_step |-> start,
   steps |-> [a |-> a, b |-> b]]

UserInput == [t |-> "user_input", args |-> [prompt |-> "p"]]
CodeGen == [t |-> "code_generation", args |-> [task |-> "t"]]
EditFile == [t |-> "code_editing", args |-> [filename |-> "f", instruction |-> "i", save |-> TRUE]]
EditNothing == [t |-> "code_editing", args |-> [instruction |-> "i"]]
FileDelete == [t |-> "file_operation", args |-> [operation |-> "delete", filename |-> "f"]]
FileWrite == [t |-> "file_operation", args |-> [operation |-> "write", filename |-> "f", previous_step |-> "a"]]
FileRead == [t |-> "file_operation", args |-> [operation |-> "read", filename |-> "f"]]
\* write steps with a literal content: with and without previous_step, and
\* with the empty text as content
FileWriteLiteral == [t |-> "file_operation", args |-> [operation |-> "write", filename |-> "f", content |-> "c0", previous_step |-> "a"]]
FileWriteLiteralOnly == [t |-> "file_operation", args |-> [operation |-> "write", filename |-> "f", content |-> "c0"]]
FileWriteEmpty == [t |-> "file_operation", args |-> [operation |-> "write", filename |-> "f", content |-> "", previous_step |-> "a"]]
FileWriteNothing == [t |-> "file_operation", args |-> [operation |-> "write", filename |-> "f"]]
Review == [t |-> "code_review", args |-> [previous_step |-> "a"]]
Refactor == [t |-> "code_refactoring", args |-> [filename |-> "f"]]
RefactorPrev == [t |-> "code_refactoring", args |-> [previous_step |-> "a"]]
TestGen == [t |-> "test_generation", args |-> [previous_step |-> "a"]]
Document == [t |-> "documentation", args |-> [filename |-> "f"]]
\* the five code-reading types with the other forms of their source
EditPrev == [t |-> "code_editing", args |-> [previous_step |-> "a", instruction |-> "i", save |-> TRUE]]
ReviewFile == [t |-> "code_review", args |-> [filename |-> "f"]]
ReviewBoth == [t |-> "code_review", args |-> [filename |-> "f", previous_step |-> "a"]]
ReviewNothing == [t |-> "code_review", args |-> [note |-> "n"]]
RefactorNothing == [t |-> "code_refactoring", args |-> [note |-> "n"]]
TestGenFile == [t |-> "test_generation", args |-> [filename |-> "f"]]
TestGenNothing == [t |-> "test_generation", args |-> [note |-> "n"]]
DocumentPrev == [t |-> "documentation", args |-> [previous_step |-> "a"]]
DocumentNothing == [t |-> "documentation", args |-> [note |-> "n"]]
Conditional(cond) == [t |-> "conditional", args |-> [condition |-> cond]]
ConditionalBare == [t |-> "conditional", args |-> [note |-> "n"]]
Loop(cond, body) == [t |-> "loop", args |-> [condition |-> cond, body_step |-> body]]
LoopBare == [t |-> "loop", args |-> [condition |-> Lit("True")]]

\* workflows without guards and without control steps
PlainDocs ==
  { Doc("a", DocStep(ka, NoCond, nosa, nofa), DocStep(kb, NoCond, None, None)) :
      ka \in {CodeGen, UserInput, EditFile, EditNothing, FileDelete},
      kb \in {FileWrite, FileRead, Review, Refactor, TestGen, Document, UserInput},
      nosa \in {"b", None, Dangling}, nofa \in {None, "b"} }

\* workflows with guard conditions
GuardDocs ==
  { Doc("a", DocStep(ka, ca, nosa, nofa), DocStep(kb, cb, None, nofb)) :
      ka \in {CodeGen, UserInput}, kb \in {CodeGen, UserInput},
      ca \in {Lit("True"), Lit("False"), Ref("b", "input"), LenRef("b", "code"), Bad},
      cb \in {NoCond, Bad},
      nosa \in {"b", None}, nofa \in {None, "b"}, nofb \in {None, "a"} }

\* workflows whose step a is a CONDITIONAL or a LOOP
ControlConds == {Lit("True"), Lit("False"), Ref("b", "input"), NotRef("b", "input"), Bad}
ControlShapes ==
  { Doc("a", DocStep(ka, NoCond, nosa, nofa), DocStep(kb, NoCond, nosb, None)) :
      ka \in {Conditional(c) : c \in ControlConds} \cup {Loop(c, "b") : c \in ControlConds}
              \cup {ConditionalBare, LoopBare},
      kb \in {CodeGen, UserInput},
      nosa \in {"b", None, Dangling}, nofa \in {None, "b"},
      nosb \in {None, "a"} }

ControlDocs ==
  { d \in ControlShapes : d.steps.b.step_type = "code_generation"
                            => d.steps.b.next_on_success = None }

\* documents that leave optional keys out
SparseDocs ==
  { [name |-> "wf", description |-> "sparse",
     steps |-> [a |-> [step_type |-> "code_generation", description |-> "d",
                       arguments |-> [task |-> "t"]]]],
    [name |-> "wf", description |-> "no steps", start_step |-> "a"],
    [name |-> "wf", description |-> "null start", start_step |-> None,
     steps |-> [a |-> DocStep(UserInput, NoCond, None, None)]] }

\* workflows whose successor edges form a cycle
CycleDocs ==
  { Doc("a", DocStep(UserInput, NoCond, "b", None), DocStep(UserInput, NoCond, "a", "a")),
    Doc("a", DocStep(CodeGen, LenRef("b", "code"), "b", None), DocStep(CodeGen, NoCond, "a", "a")) }

\* a generation step followed by a write step with or without literal content
WriteDocs ==
  { Doc("a", DocStep(CodeGen, NoCond, "b", nofa), DocStep(kb, NoCond, None, None)) :
      kb \in {FileWriteLiteral, FileWriteLiteralOnly, FileWriteEmpty, FileWriteNothing},
      nofa \in {None, "b"} }

\* a generation step followed by a code-reading step
SourceDocs ==
  { Doc("a", DocStep(CodeGen, NoCond, "b", None), DocStep(kb, NoCond, None, None)) :
      kb \in {EditPrev, ReviewFile, ReviewBoth, ReviewNothing, RefactorPrev, RefactorNothing,
              TestGenFile, TestGenNothing, DocumentPrev, DocumentNothing} }

Docs == PlainDocs \cup GuardDocs \cup ControlDocs \cup CycleDocs \cup SparseDocs
          \cup WriteDocs \cup SourceDocs

\* workflows that are executed more than once: step b reads the record of
\* step a, by previous_step or by its guard; the last one has no start_step
ResumeDocs ==
  { Doc("a", DocStep(CodeGen, NoCond, "b", None), DocStep(FileWrite, NoCond, None, None)),
    Doc("a", DocStep(CodeGen, NoCond, Dangling, None),
             DocStep(RefactorPrev, LenRef("a", "code"), None, None)),
    [name |-> "wf", description |-> "no start",
     steps |-> [a |-> DocStep(UserInput, NoCond, None, None),
                b |-> DocStep(RefactorPrev, NoCond, None, None)]] }

\* documents that from_dict cannot decode: a required key is missing, or a
\* step_type is not the value of a member
BadDocs ==
  { [description |-> "no name", start_step |-> "a",
     steps |-> [a |-> DocStep(CodeGen, NoCond, None, None)]],
    [name |-> "wf", start_step |-> "a",
     steps |-> [a |-> DocStep(CodeGen, NoCond, None, None)]],
    Doc("a", DocStep(CodeGen, NoCond, "b", None),
             DocStep([t |-> "shell_command", args |-> [command |-> "ls"]], NoCond, None, None)),
    Doc("a", DocStep([t |-> "CODE_GENERATION", args |-> [task |-> "t"]], NoCond, "b", None),
             DocStep(UserInput, NoCond, None, None)),
    [name |-> "wf", description |-> "step without arguments", start_step |-> "a",
     steps |-> [a |-> [step_type |-> "user_input", description |-> "d"]]] }

\* every key of the document format is present
WellFormed(d) ==
  /\ DOMAIN d = {"name", "description", "start_step", "steps"}
  /\ \A id \in DOMAIN d.steps :
        DOMAIN d.steps[id] = {"step_type", "description", "arguments", "condition",
                              "next_on_success", "next_on_failure"}

\* ------------------------------------------------------------------ codec
\* the values of the members of WorkflowStepType
StepTypeValues ==
  {"code_generation", "code_editing", "code_review", "code_refactoring", "test_generation",
   "documentation", "user_input", "file_operation", "conditional", "loop"}

\* the order in which items() yields the steps of a document
StepOrder == <<"a", "b">>

\* the exception the construction of one WorkflowStep raises, "" when none
StepError(step_data) ==
  IF "step_type" \notin DOMAIN step_data THEN "KeyError: 'step_type'"
  ELSE IF step_data.step_type \notin StepTypeValues
  THEN "ValueError: '" \o step_data.step_type \o "' is not a valid WorkflowStepType"
  ELSE IF "description" \notin DOMAIN step_data THEN "KeyError: 'description'"
  ELSE IF "arguments" \notin DOMAIN step_data THEN "KeyError: 'arguments'"
  ELSE ""

\* the positions of StepOrder whose step the loop of from_dict reaches and
\* cannot construct
FailingSteps(data) ==
  LET ds == Get(data, "steps", <<>>)
  IN {i \in 1..Len(StepOrder) : StepOrder[i] \in DOMAIN ds /\ StepError(ds[StepOrder[i]]) # ""}

FirstFailing(data) == CHOOSE i \in FailingSteps(data) : \A j \in FailingSteps(data) : i <= j

\* the exception from_dict(data) raises, "" when it returns
DecodeError(data) ==
  IF "name" \notin DOMAIN data THEN "KeyError: 'name'"
  ELSE IF "description" \notin DOMAIN data THEN "KeyError: 'description'"
  ELSE IF FailingSteps(data) # {}
  THEN StepError(data.steps[StepOrder[FirstFailing(data)]])
  ELSE ""

\* the steps from_dict has stored when it raises at a step
StoredBeforeFailure(data) ==
  {StepOrder[i] : i \in {j \in 1..Len(StepOrder) : j < FirstFailing(data)}} \cap DOMAIN data.steps

\* WorkflowStep(...) built by from_dict from one step of the document
DecodeStep(step_data) ==
  [step_type |-> WorkflowStepType(step_data.step_type),
   description |-> step_data.description,
   arguments |-> step_data.arguments,
   condition |-> Get(step_data, "condition", NoCond),
   next_on_success |-> Get(step_data, "next_on_success", None),
   next_on_failure |-> Get(step_data, "next_on_failure", None)]

\* mutant: the member's name is written instead of its value
StepToDict_MemberName(step) ==
  [step_type |-> step.step_type,
   description |-> step.description,
   arguments |-> step.arguments,
   condition |-> step.condition,
   next_on_success |-> step.next_on_success,
   next_on_failure |-> step.next_on_failure]

\* WorkflowStep.to_dict
StepToDict(step) ==
  [step_type |-> StepTypeValue(step.step_type),
   description |-> step.description,
   arguments |-> step.arguments,
   condition |-> step.condition,
   next_on_success |-> step.next_on_success,
   next_on_failure |-> step.next_on_failure]

\* Workflow.to_dict
WorkflowToDict ==
  [name |-> name, description |-> description,
   steps |-> [k \in DOMAIN steps |-> StepToDict(steps[k])],
   start_step |-> start_step]

\* ---------------------------------------------------------------- actions
\* nothing has been called yet: a fresh Workflow, no safe_api_call, no
\* WorkflowController
Constructed ==
  /\ name = "" /\ description = ""
  /\ steps = <<>> /\ start_step = None
  /\ results = <<>>
  /\ interactive_mode = FALSE
  /\ added = <<>> /\ answers = <<>>
  /\ model = None /\ ctl_steps = <<>> /\ step_keys = <<>> /\ step_order = <<>>
  /\ context_variables = <<>> /\ context_results = <<>>
  /\ ctl_pc = "none" /\ ctl_index = 0 /\ ctl_results = <<>> /\ ctl_trace = <<>>
  /\ dependencies = <<>>
  /\ pc = "new" /\ current_step_id = None /\ start_from = None
  /\ trace = <<>> /\ outcome = "none"
  /\ doc = NoDoc /\ encoded = NoDoc
  /\ runs = 0
  /\ max_retries = 0 /\ retry_delay = 0 /\ attempt = 0
  /\ api_pc = "idle" /\ api_result = None
  /\ calls = <<>> /\ slept = <<>>

Init ==
  /\ files \in [FileNames -> {NoFile, "c0"}]
  /\ Constructed

\* mutant: a document without start_step starts at one of its steps
FromDict_InfersStart(data) ==
  /\ pc = "new"
  /\ DecodeError(data) = ""
  /\ name' = data.name
  /\ description' = data.description
  /\ start_step' = LET ds == Get(data, "steps", <<>>)
                   IN IF Get(data, "start_step", None) = None /\ DOMAIN ds # {}
                      THEN CHOOSE id \in DOMAIN ds : TRUE
                      ELSE Get(data, "start_step", None)
  /\ steps' = LET ds == Get(data, "steps", <<>>)
              IN [id \in DOMAIN ds |-> DecodeStep(ds[id])] @@ steps
  /\ doc' = data
  /\ pc' = "ready"
  /\ encoded' = NoDoc
  /\ UNCHANGED <<results, interactive_mode, files, current_step_id, start_from, trace, outcome, runs>>
  /\ UNCHANGED <<apivars, ctlvars, added, answers>>

\* Workflow.from_dict(data) on the fresh workflow
FromDict(data) ==
  /\ pc = "new"
  /\ DecodeError(data) = ""
  /\ name' = data.name
  /\ description' = data.description
  /\ start_step' = Get(data, "start_step", None)
  /\ steps' = LET ds == Get(data, "steps", <<>>)
              IN [id \in DOMAIN ds |-> DecodeStep(ds[id])] @@ steps
  /\ doc' = data
  /\ pc' = "ready"
  /\ encoded' = NoDoc
  /\ UNCHANGED <<results, interactive_mode, files, current_step_id, start_from, trace, outcome, runs>>
  /\ UNCHANGED <<apivars, ctlvars, added, answers>>

\* mutant: the document is loaded as far as it can be decoded, and returned
FromDictFails_Returns(data) ==
  /\ pc = "new"
  /\ DecodeError(data) # ""
  /\ name' = Get(data, "name", name)
  /\ description' = IF "name" \in DOMAIN data THEN Get(data, "description", description)
                    ELSE description
  /\ start_step' = IF {"name", "description"} \subseteq DOMAIN data
                   THEN Get(data, "start_step", None) ELSE start_step
  /\ steps' = IF {"name", "description"} \subseteq DOMAIN data
              THEN [id \in StoredBeforeFailure(data) |-> DecodeStep(data.steps[id])] @@ steps
              ELSE steps
  /\ doc' = data
  /\ pc' = "ready"
  /\ encoded' = NoDoc
  /\ UNCHANGED <<results, interactive_mode, files, current_step_id, start_from, trace,
                 outcome, runs>>
  /\ UNCHANGED <<apivars, ctlvars, added, answers>>

\* Workflow.from_dict(data) raises: the assignments made before the raise
\* stay, and no workflow is returned
FromDictFails(data) ==
  /\ pc = "new"
  /\ DecodeError(data) # ""
  /\ name' = Get(data, "name", name)
  /\ description' = IF "name" \in DOMAIN data THEN Get(data, "description", description)
                    ELSE description
  /\ start_step' = IF {"name", "description"} \subseteq DOMAIN data
                   THEN Get(data, "start_step", None) ELSE start_step
  /\ steps' = IF {"name", "description"} \subseteq DOMAIN data
              THEN [id \in StoredBeforeFailure(data) |-> DecodeStep(data.steps[id])] @@ steps
              ELSE steps
  /\ doc' = data
  /\ pc' = "failed"
  /\ outcome' = "decode_error"
  /\ encoded' = NoDoc
  /\ UNCHANGED <<results, interactive_mode, files, current_step_id, start_from, trace, runs>>
  /\ UNCHANGED <<apivars, ctlvars, added, answers>>

\* Workflow.to_dict(), called on the loaded workflow
ToDict ==
  /\ pc = "ready"
  /\ encoded' = WorkflowToDict
  /\ UNCHANGED <<name, description, steps, start_step, results, interactive_mode,
                 files, pc, current_step_id, start_from, trace, outcome, doc, runs>>
  /\ UNCHANGED <<apivars, ctlvars, added, answers>>

\* Workflow.set_interactive_mode(interactive)
SetInteractiveMode(interactive) ==
  /\ pc \in {"new", "ready"}
  /\ interactive_mode' = interactive
  /\ encoded' = NoDoc
  /\ UNCHANGED <<name, description, steps, start_step, results, files, pc,
                 current_step_id, start_from, trace, outcome, doc, runs>>
  /\ UNCHANGED <<apivars, ctlvars, added, answers>>
\* truth of an identifier: None and the empty string are false
IsSet(id) == id # None /\ id # ""

StartFroms == {None, "b"}

\* mutant: every call starts with an empty result store
Call_ClearsResults(sf) ==
  /\ start_from' = sf
  /\ runs' = runs + 1
  /\ results' = <<>>
  /\ LET first == IF IsSet(sf) THEN sf ELSE start_step
     IN IF IsSet(first)
        THEN pc' = "running" /\ current_step_id' = first /\ outcome' = "none"
        ELSE pc' = "raised" /\ current_step_id' = first /\ outcome' = "no_start"
  /\ trace' = <<>>
  /\ encoded' = NoDoc
  /\ UNCHANGED <<name, description, steps, start_step, interactive_mode, files, doc>>
  /\ UNCHANGED <<apivars, ctlvars, added, answers>>

\* mutant: without a start identifier the call returns the result store
Call_ReturnsWithoutStart(sf) ==
  /\ start_from' = sf
  /\ runs' = runs + 1
  /\ LET first == IF IsSet(sf) THEN sf ELSE start_step
     IN IF IsSet(first)
        THEN pc' = "running" /\ current_step_id' = first /\ outcome' = "none"
        ELSE pc' = "returned" /\ current_step_id' = first /\ outcome' = "finished"
  /\ trace' = <<>>
  /\ encoded' = NoDoc
  /\ UNCHANGED <<name, description, steps, start_step, results, interactive_mode, files, doc>>
  /\ UNCHANGED <<apivars, ctlvars, added, answers>>

\* the entry of execute(start_from), lines 113-115: self.results is the
\* store the instance already has
Call(sf) ==
  /\ start_from' = sf
  /\ runs' = runs + 1
  /\ LET first == IF IsSet(sf) THEN sf ELSE start_step
     IN IF IsSet(first)
        THEN pc' = "running" /\ current_step_id' = first /\ outcome' = "none"
        ELSE pc' = "raised" /\ current_step_id' = first /\ outcome' = "no_start"
  /\ trace' = <<>>
  /\ encoded' = NoDoc
  /\ UNCHANGED <<name, description, steps, start_step, results, interactive_mode, files, doc>>
  /\ UNCHANGED <<apivars, ctlvars, added, answers>>

\* the first execute(start_from) on the loaded workflow
Execute(sf) ==
  /\ pc = "ready"
  /\ Call(sf)

\* execute(start_from) called again on the same instance, after an earlier
\* call returned or raised
ExecuteAgain(sf) ==
  /\ pc \in {"returned", "raised"}
  /\ runs < MaxRuns
  /\ Call(sf)

\* one processed step of the run, for the record: the identifier, how the
\* visit went (skipped by its guard, returned a record, raised), the record
\* the executor returned, the exception message, the answer of the
\* confirmation gate, the text put into the prompt of the generation service,
\* and the result store and the files before the visit
Visit(id, how, rec, exc, gate, prompt) ==
  [id |-> id, how |-> how, rec |-> rec, exc |-> exc, gate |-> gate, prompt |-> prompt,
   before |-> results, files |-> files]

\* mutant: a step without a hint is followed by its failure successor
NextAfterSuccess_FailureEdge(result, step) ==
  IF "next_step" \in DOMAIN result THEN PyToId(result["next_step"])
  ELSE step.next_on_failure

\* mutant: the hint of the record is ignored
NextAfterSuccess_NoHint(result, step) == step.next_on_success

\* mutant: a next_step that is None falls back, as result.get("next_step")
\* or next_on_success would
NextAfterSuccess_NoneFallsBack(result, step) ==
  IF "next_step" \in DOMAIN result /\ result["next_step"] # PyNone
  THEN PyToId(result["next_step"])
  ELSE step.next_on_success

\* mutant: after a step that succeeded the traversal starts over
NextAfterSuccess_StartsOver(result, step) == start_step

\* result.get("next_step", current_step.next_on_success), line 152
NextAfterSuccess(result, step) ==
  IF "next_step" \in DOMAIN result THEN PyToId(result["next_step"])
  ELSE step.next_on_success

\* the handler of lines 153-156
FailureRecord(msg) == [error |-> PyStr(msg)]

\* mutant: a raising step is followed by its success successor
NextAfterFailure_SuccessEdge(step) == step.next_on_success

NextAfterFailure(step) == step.next_on_failure

\* mutant: a skipped step is followed by its success successor
NextAfterSkip_SuccessEdge(step) == step.next_on_success

\* the successor of a step skipped by its guard, line 137
NextAfterSkip(step) == step.next_on_failure

\* the while loop ends: return self.results, line 158
Finish ==
  /\ pc = "running"
  /\ ~IsSet(current_step_id)
  /\ pc' = "returned"
  /\ outcome' = "finished"
  /\ encoded' = NoDoc
  /\ UNCHANGED <<name, description, steps, start_step, results, interactive_mode,
                 files, current_step_id, start_from, trace, doc, runs>>
  /\ UNCHANGED <<apivars, ctlvars, added, answers>>

\* mutant: an identifier that is not a step ends the run like an absent one
UnknownStep_Returns ==
  /\ pc = "running"
  /\ IsSet(current_step_id)
  /\ current_step_id \notin DOMAIN steps
  /\ pc' = "returned"
  /\ outcome' = "finished"
  /\ encoded' = NoDoc
  /\ UNCHANGED <<name, description, steps, start_step, results, interactive_mode,
                 files, current_step_id, start_from, trace, doc, runs>>
  /\ UNCHANGED <<apivars, ctlvars, added, answers>>

\* the identifier is not a step: ValueError, lines 118-119
UnknownStep ==
  /\ pc = "running"
  /\ IsSet(current_step_id)
  /\ current_step_id \notin DOMAIN steps
  /\ pc' = "raised"
  /\ outcome' = "unknown_step"
  /\ encoded' = NoDoc
  /\ UNCHANGED <<name, description, steps, start_step, results, interactive_mode,
                 files, current_step_id, start_from, trace, doc, runs>>
  /\ UNCHANGED <<apivars, ctlvars, added, answers>>

CanVisit ==
  /\ pc = "running"
  /\ IsSet(current_step_id)
  /\ current_step_id \in DOMAIN steps
  /\ Len(trace) < MaxVisits

\* the guard is not satisfied: lines 125-138
GuardSkip ==
  /\ CanVisit
  /\ LET current_step == steps[current_step_id]
         ec == EvaluateCondition(current_step.condition, current_step_id, results)
     IN /\ current_step.condition.op # "None"
        /\ ~ec.value
        /\ results' = ec.results
        /\ current_step_id' = NextAfterSkip(current_step)
        /\ trace' = Append(trace, Visit(current_step_id, "skipped", <<>>, "", "none", NoPrompt))
  /\ encoded' = NoDoc
  /\ UNCHANGED <<name, description, steps, start_step, interactive_mode, files, pc,
                 start_from, outcome, doc, runs>>
  /\ UNCHANGED <<apivars, ctlvars, added, answers>>

\* the step is executed: lines 141-156, up to the confirmation
\* mutant: the store holds the record of the last step only
Store_DropsTheOthers(res, step_id, result) == (step_id :> result)

\* self.results[current_step_id] = result, lines 143 and 155
Store(res, step_id, result) == (step_id :> result) @@ res

\* mutant: the result of every step is presented for confirmation
GateApplies_ToEveryStep(step) == interactive_mode

\* the test of line 145: the result is presented for confirmation
GateApplies(step) == interactive_mode /\ step.step_type # "USER_INPUT"

RunStep(env) ==
  /\ CanVisit
  /\ LET current_step == steps[current_step_id]
         ec == EvaluateCondition(current_step.condition, current_step_id, results)
         r == ExecuteStep(current_step, results, files, env)
     IN /\ current_step.condition.op = "None" \/ ec.value
        /\ env \in EnvFor(current_step.step_type)
        /\ files' = r.files
        /\ IF r.raised
           THEN /\ results' = Store(results, current_step_id, FailureRecord(r.msg))
                /\ current_step_id' = NextAfterFailure(current_step)
                /\ trace' = Append(trace, Visit(current_step_id, "raised", <<>>, r.msg, "none", r.prompt))
                /\ pc' = pc
           ELSE /\ results' = Store(results, current_step_id, r.result)
                /\ IF GateApplies(current_step)
                   THEN /\ pc' = "confirm"
                        /\ current_step_id' = current_step_id
                        /\ trace' = Append(trace, Visit(current_step_id, "returned", r.result, "", "asked", r.prompt))
                   ELSE /\ pc' = pc
                        /\ current_step_id' = NextAfterSuccess(r.result, current_step)
                        /\ trace' = Append(trace, Visit(current_step_id, "returned", r.result, "", "none", r.prompt))
  /\ encoded' = NoDoc
  /\ UNCHANGED <<name, description, steps, start_step, interactive_mode,
                 start_from, outcome, doc, runs>>
  /\ UNCHANGED <<apivars, ctlvars, added, answers>>

SetGate(gate) == [trace EXCEPT ![Len(trace)].gate = gate]

\* _get_user_confirmation: the answer y
ConfirmYes ==
  /\ pc = "confirm"
  /\ pc' = "running"
  /\ current_step_id' = NextAfterSuccess(results[current_step_id], steps[current_step_id])
  /\ trace' = SetGate("y")
  /\ encoded' = NoDoc
  /\ UNCHANGED <<name, description, steps, start_step, results, interactive_mode,
                 files, start_from, outcome, doc, runs>>
  /\ UNCHANGED <<apivars, ctlvars, added>>
  /\ answers' = <<>>

\* mutant: the rejection is logged and the traversal goes on
ConfirmNo_GoesOn ==
  /\ pc = "confirm"
  /\ pc' = "running"
  /\ outcome' = "rejected"
  /\ current_step_id' = NextAfterSuccess(results[current_step_id], steps[current_step_id])
  /\ trace' = SetGate("n")
  /\ encoded' = NoDoc
  /\ UNCHANGED <<name, description, steps, start_step, results, interactive_mode,
                 files, start_from, doc, runs>>
  /\ UNCHANGED <<apivars, ctlvars, added>>
  /\ answers' = <<>>

\* the answer n: execute() returns self.results, lines 147-149
ConfirmNo ==
  /\ pc = "confirm"
  /\ pc' = "returned"
  /\ outcome' = "rejected"
  /\ trace' = SetGate("n")
  /\ encoded' = NoDoc
  /\ UNCHANGED <<name, description, steps, start_step, results, interactive_mode,
                 files, current_step_id, start_from, doc, runs>>
  /\ UNCHANGED <<apivars, ctlvars, added>>
  /\ answers' = <<>>

\* mutant: the answer e goes on without storing the replacement
EditedRecord_KeepsCode(result, lines) == result

\* result["code"] = new_code
EditedRecord(result, lines) == [result EXCEPT !.code = PyStr(JoinLines(lines))]

\* mutant: the gate returns on an edit whatever the replacement is
ConfirmEdit_AcceptsEmpty(lines) ==
  /\ pc = "confirm"
  /\ "code" \in DOMAIN results[current_step_id]
  /\ results' = [results EXCEPT ![current_step_id] = EditedRecord(@, lines)]
  /\ pc' = "running"
  /\ current_step_id' = NextAfterSuccess(results[current_step_id], steps[current_step_id])
  /\ trace' = SetGate("e")
  /\ encoded' = NoDoc
  /\ UNCHANGED <<name, description, steps, start_step, interactive_mode,
                 files, start_from, outcome, doc, runs>>
  /\ UNCHANGED <<apivars, ctlvars, added>>
  /\ answers' = <<>>

\* the answer e on a record that has code, followed by the lines and the
\* line END, the lines making a non-empty replacement
ConfirmEdit(lines) ==
  /\ pc = "confirm"
  /\ "code" \in DOMAIN results[current_step_id]
  /\ JoinLines(lines) # ""
  /\ results' = [results EXCEPT ![current_step_id] = EditedRecord(@, lines)]
  /\ pc' = "running"
  /\ current_step_id' = NextAfterSuccess(results[current_step_id], steps[current_step_id])
  /\ trace' = SetGate("e")
  /\ encoded' = NoDoc
  /\ UNCHANGED <<name, description, steps, start_step, interactive_mode,
                 files, start_from, outcome, doc, runs>>
  /\ UNCHANGED <<apivars, ctlvars, added>>
  /\ answers' = <<>>

\* an input the gate does not return on: an answer other than y, n and e
\* (no lines are read), e on a record without code (no lines are read), e
\* with lines that make an empty replacement
AsksAgain(result, input) ==
  \/ input.response \notin {"y", "n", "e"} /\ input.lines = <<>>
  \/ input.response = "e" /\ "code" \notin DOMAIN result /\ input.lines = <<>>
  \/ input.response = "e" /\ "code" \in DOMAIN result /\ JoinLines(input.lines) = ""

\* the gate reads such an input and asks again, any number of times; the
\* history keeps the last MaxPrompts of these inputs
ConfirmAgain(input) ==
  /\ pc = "confirm"
  /\ AsksAgain(results[current_step_id], input)
  /\ answers' = IF Len(answers) < MaxPrompts THEN Append(answers, input)
                ELSE Append(Tail(answers), input)
  /\ encoded' = NoDoc
  /\ UNCHANGED <<name, description, steps, start_step, results, interactive_mode,
                 files, pc, current_step_id, start_from, trace, outcome, doc, runs>>
  /\ UNCHANGED <<apivars, ctlvars, added>>

\* input() raises inside the gate: the handler of lines 153-156 runs
ConfirmRaises ==
  /\ pc = "confirm"
  /\ results' = Store(results, current_step_id, FailureRecord("EOF when reading a line"))
  /\ current_step_id' = NextAfterFailure(steps[current_step_id])
  /\ pc' = "running"
  /\ trace' = SetGate("raised")
  /\ encoded' = NoDoc
  /\ UNCHANGED <<name, description, steps, start_step, interactive_mode,
                 files, start_from, outcome, doc, runs>>
  /\ UNCHANGED <<apivars, ctlvars, added>>
  /\ answers' = <<>>

\* the inputs of the gate
GateInputs == [response : {"y", "n", "e", "x"}, lines : EditLines]

Next ==
  \/ \E data \in Docs : FromDict(data)
  \/ \E data \in BadDocs : FromDictFails(data)
  \/ ToDict
  \/ \E interactive \in BOOLEAN : SetInteractiveMode(interactive)
  \/ \E sf \in StartFroms : Execute(sf)
  \/ Finish
  \/ UnknownStep
  \/ GuardSkip
  \/ \E env \in [gen : GenOutcomes, input : InputOutcomes] : RunStep(env)
  \/ ConfirmYes
  \/ ConfirmNo
  \/ \E lines \in EditLines : ConfirmEdit(lines)
  \/ \E input \in GateInputs : ConfirmAgain(input)
  \/ ConfirmRaises

Spec == Init /\ [][Next]_vars

\* one Workflow instance whose execute() is called up to MaxRuns times
NextResume ==
  \/ \E data \in ResumeDocs : FromDict(data)
  \/ ToDict
  \/ \E interactive \in BOOLEAN : SetInteractiveMode(interactive)
  \/ \E sf \in StartFroms : Execute(sf)
  \/ \E sf \in StartFroms : ExecuteAgain(sf)
  \/ Finish
  \/ UnknownStep
  \/ GuardSkip
  \/ \E env \in [gen : GenOutcomes, input : InputOutcomes] : RunStep(env)
  \/ ConfirmYes
  \/ ConfirmNo
  \/ \E lines \in EditLines : ConfirmEdit(lines)
  \/ \E input \in GateInputs : ConfirmAgain(input)
  \/ ConfirmRaises

SpecResume == Init /\ [][NextResume]_vars

\* ---------------------------------------------------------- safe_api_call
\* the defaults of the parameters
DefaultMaxRetries == 3
DefaultRetryDelay == 2
\* the largest max_retries and retry_delay a call is made with
MaxRetries == 4
MaxDelay == 3

\* what one invocation of call_func does: it returns a value, or raises an
\* exception with a message
ApiValues == {"r1", "r2"}
ApiMessages ==
  {"Resource has been exhausted (e.g. check quota).", "HTTP 429 Too Many Requests",
   "500 Internal Server Error", ""}
ApiOutcomes == [ok : {TRUE}, v : ApiValues] \cup [ok : {FALSE}, v : ApiMessages]

\* sub in s
Contains(s, sub) ==
  \E i \in 1..(Len(s) - Len(sub) + 1) : SubSeq(s, i, i + Len(sub) - 1) = sub

\* the test of line 88 on str(e)
IsRateLimit(msg) == Contains(msg, "Resource has been exhausted") \/ Contains(msg, "429")

\* safe_api_call(call_func, max_retries, retry_delay) is entered; range() of
\* a count below one is empty and the function returns None
SafeApiCall(m, d) ==
  /\ api_pc = "idle"
  /\ max_retries' = m /\ retry_delay' = d
  /\ attempt' = 0
  /\ IF m >= 1
     THEN api_pc' = "try" /\ api_result' = api_result
     ELSE api_pc' = "returned" /\ api_result' = None
  /\ UNCHANGED <<calls, slept>>
  /\ UNCHANGED <<wfvars, ctlvars>>

\* mutant: every exception is retried
Attempt_RetriesAnyError(out) ==
  /\ api_pc = "try"
  /\ calls' = Append(calls, out)
  /\ IF out.ok
     THEN /\ api_pc' = "returned" /\ api_result' = out.v
          /\ UNCHANGED <<attempt, slept>>
     ELSE IF attempt < max_retries - 1
          THEN /\ slept' = Append(slept, retry_delay * (2 ^ attempt))
               /\ attempt' = attempt + 1
               /\ UNCHANGED <<api_pc, api_result>>
          ELSE /\ api_pc' = "raised" /\ api_result' = out.v
               /\ UNCHANGED <<attempt, slept>>
  /\ UNCHANGED <<max_retries, retry_delay>>
  /\ UNCHANGED <<wfvars, ctlvars>>

\* one iteration of the loop of lines 84-98: call_func is invoked and returns
\* or raises, and the handler sleeps and goes on, or re-raises
Attempt(out) ==
  /\ api_pc = "try"
  /\ calls' = Append(calls, out)
  /\ IF out.ok
     THEN /\ api_pc' = "returned" /\ api_result' = out.v
          /\ UNCHANGED <<attempt, slept>>
     ELSE IF IsRateLimit(out.v) /\ attempt < max_retries - 1
          THEN /\ slept' = Append(slept, retry_delay * (2 ^ attempt))
               /\ attempt' = attempt + 1
               /\ UNCHANGED <<api_pc, api_result>>
          ELSE /\ api_pc' = "raised" /\ api_result' = out.v
               /\ UNCHANGED <<attempt, slept>>
  /\ UNCHANGED <<max_retries, retry_delay>>
  /\ UNCHANGED <<wfvars, ctlvars>>

NextApi ==
  \/ \E m \in 0..MaxRetries, d \in 1..MaxDelay : SafeApiCall(m, d)
  \/ \E out \in ApiOutcomes : Attempt(out)

SpecApi == Init /\ [][NextApi]_vars

\* ---------------------------------------------------- WorkflowController
\* identifiers of controller steps, and the paths of the file system they
\* and the workflow steps write to
CtlIds == {"s", "t"}
FsPaths == {"f", "d", "d/g"}

\* the model_interface handed to the constructor
AModel == [ty |-> "model", v |-> "m"]
PyDict(d) == [ty |-> "dict", v |-> d]

\* WorkflowContext.get_variable(name)
GetVariable(variables, var) == Get(variables, var, PyNone)
\* WorkflowContext.set_variable(name, value)
SetVariable(variables, var, value) == (var :> value) @@ variables
\* WorkflowContext.set_result(step_id, result)
SetResult(res, step_id, result) == (step_id :> result) @@ res

\* the constructors of the two step classes
CodeGenerationStep(step_id, task, output_variable) ==
  [type |-> "code_generation", step_id |-> step_id, description |-> "d",
   task |-> task, language |-> "python",
   output_variable |-> IF output_variable \in {None, ""} THEN step_id \o "_code"
                       ELSE output_variable,
   status |-> "pending", result |-> PyNone, error |-> PyNone]

FileOperationStep(step_id, operation, file_path, content_variable) ==
  [type |-> "file_operation", step_id |-> step_id, description |-> "d",
   operation |-> operation, file_path |-> file_path,
   content_variable |-> content_variable,
   status |-> "pending", result |-> PyNone, error |-> PyNone]

\* what step.execute(context) leaves: the step, the context, the files, and
\* the value it returns
StepOutcome(step, variables, res, fs, success) ==
  [step |-> step, variables |-> variables, results |-> res, files |-> fs,
   success |-> success]
\* mutant: a failing path sets the error and returns without the status
StepFails_KeepsStatus(step, error, variables, res, fs) ==
  StepOutcome([step EXCEPT !.error = PyStr(error)], variables, res, fs, FALSE)

StepFails(step, error, variables, res, fs) ==
  StepOutcome([step EXCEPT !.status = "failed", !.error = PyStr(error)],
              variables, res, fs, FALSE)
StepCompletes(step, result, variables, res, fs) ==
  StepOutcome([step EXCEPT !.status = "completed", !.result = result],
              variables, res, fs, TRUE)

\* tools.clean_code_output(response)
CleanCodeOutput(response) == IF response = FencedResponse THEN "c1" ELSE response

\* CodeGenerationStep.execute(context), the service answering with response
ExecuteCodeGenerationStep(step, variables, res, fs, response) ==
  IF ~Truthy(GetVariable(variables, "model_interface"))
  THEN StepFails(step, "model interface is not set", variables, res, fs)
  ELSE IF response = GenFails
  THEN StepFails(step, GenFails, variables, res, fs)
  ELSE LET code == PyStr(CleanCodeOutput(response))
       IN StepCompletes(step, code,
            SetVariable(variables, step.output_variable, code),
            SetResult(res, step.step_id, [code |-> code, raw_response |-> PyStr(response)]),
            fs)

\* mutant: the write does not create the directories of its path
MakeDirs_CreatesNothing(fs, dir) == [ok |-> TRUE, files |-> fs]

\* Path(dir).mkdir(parents=True, exist_ok=True): the missing directories are
\* created, and it raises when a file stands where a directory is needed
RECURSIVE MakeDirs(_, _)
MakeDirs(fs, dir) ==
  IF DirExists(fs, dir) THEN [ok |-> TRUE, files |-> fs]
  ELSE IF fs[dir] # NoFile THEN [ok |-> FALSE, files |-> fs]
  ELSE LET up == MakeDirs(fs, ParentOf(dir))
       IN IF up.ok THEN [ok |-> TRUE, files |-> [up.files EXCEPT ![dir] = IsDir]]
          ELSE up

\* FileOperationStep.execute(context)
ExecuteFileOperationStep(step, variables, res, fs) ==
  IF step.operation = "read"
  THEN IF fs[step.file_path] \in {NoFile, IsDir}
       THEN StepFails(step, "file read error", variables, res, fs)
       ELSE LET content == PyStr(fs[step.file_path])
            IN StepCompletes(step, PyDict([content |-> content]),
                 IF step.content_variable \in {None, ""} THEN variables
                 ELSE SetVariable(variables, step.content_variable, content),
                 SetResult(res, step.step_id,
                           [content |-> content, file_path |-> PyStr(step.file_path)]),
                 fs)
  ELSE IF step.operation = "write"
  THEN LET content == GetVariable(variables, step.content_variable)
           made == MakeDirs(fs, ParentOf(step.file_path))
       IN IF content = PyNone
          THEN StepFails(step, "variable not found", variables, res, fs)
          ELSE IF ~made.ok
          THEN StepFails(step, "mkdir error", variables, res, made.files)
          ELSE IF ~CanOpenForWrite(made.files, step.file_path)
          THEN StepFails(step, "file write error", variables, res, made.files)
          \* open(file_path, "w") has truncated the file when f.write raises
          ELSE IF content.ty # "str"
          THEN StepFails(step, "write() argument must be str", variables, res,
                         [made.files EXCEPT ![step.file_path] = ""])
          ELSE StepCompletes(step, PyDict([file_path |-> PyStr(step.file_path)]),
                 variables,
                 SetResult(res, step.step_id,
                           [file_path |-> PyStr(step.file_path), success |-> PyBool(TRUE)]),
                 [made.files EXCEPT ![step.file_path] = content.v])
  ELSE StepFails(step, "unsupported file operation", variables, res, fs)

\* step.execute(context), by the class of the step: both begin with
\* self.status = WorkflowStepStatus.IN_PROGRESS
ExecuteCtlStep(step, variables, res, fs, response) ==
  LET started == [step EXCEPT !.status = "in_progress"]
  IN IF step.type = "code_generation"
     THEN ExecuteCodeGenerationStep(started, variables, res, fs, response)
     ELSE ExecuteFileOperationStep(started, variables, res, fs)

\* the steps handed to add_step
CtlSteps ==
  UNION { { CodeGenerationStep(id, "t", None),
            FileOperationStep(id, "write", "d/g", "s_code"),
            FileOperationStep(id, "write", "d", "s_code"),
            FileOperationStep(id, "write", "f", None),
            FileOperationStep(id, "read", "f", "s_code"),
            FileOperationStep(id, "append", "f", "s_code") } : id \in CtlIds }

\* the fields of the Workflow, which no controller operation touches
wfonly == <<name, description, steps, start_step, results, interactive_mode,
            pc, current_step_id, start_from, trace, outcome, doc, encoded, runs, added,
            answers>>

\* WorkflowController(goal, model_interface)
NewController(model_interface) ==
  /\ ctl_pc = "none"
  /\ model' = model_interface
  /\ context_variables' = SetVariable(context_variables, "model_interface", model_interface)
  /\ ctl_pc' = "ready"
  /\ UNCHANGED <<ctl_steps, step_keys, step_order, context_results, ctl_index, ctl_results, ctl_trace,
                 dependencies>>
  /\ UNCHANGED <<wfonly, files, apivars>>

InOrder(order, id) == \E i \in 1..Len(order) : order[i] = id

\* WorkflowController.add_step(step)
CtlAddStep(step) ==
  /\ ctl_pc = "ready"
  /\ ctl_steps' = (step.step_id :> step) @@ ctl_steps
  /\ step_keys' = IF step.step_id \in DOMAIN ctl_steps THEN step_keys
                  ELSE Append(step_keys, step.step_id)
  /\ step_order' = IF InOrder(step_order, step.step_id) THEN step_order
                   ELSE Append(step_order, step.step_id)
  /\ UNCHANGED <<model, context_variables, context_results, ctl_pc, ctl_index, ctl_results,
                 ctl_trace, dependencies>>
  /\ UNCHANGED <<wfonly, files, apivars>>

\* WorkflowController.execute() is entered
CtlExecute ==
  /\ ctl_pc = "ready"
  /\ ctl_results' = <<>>
  /\ ctl_index' = 1
  /\ ctl_pc' = "running"
  /\ ctl_trace' = <<>>
  /\ UNCHANGED <<model, ctl_steps, step_keys, step_order, context_variables,
          context_results,
                 dependencies>>
  /\ UNCHANGED <<wfonly, files, apivars>>

\* the responses the service may give to the step
ResponsesFor(step) == IF step.type = "code_generation" THEN GenOutcomes ELSE {PlainResponse}

\* mutant: the loop goes on after a step that failed
LoopBreaks_Never(success) == FALSE

\* if not success: break
LoopBreaks(success) == ~success

\* one pass of the loop of execute(): the step is executed and reported,
\* and a failed step ends the loop
CtlStep(response) ==
  /\ ctl_pc = "running"
  /\ ctl_index <= Len(step_order)
  /\ step_order[ctl_index] \in DOMAIN ctl_steps
  /\ LET step_id == step_order[ctl_index]
         step == ctl_steps[step_id]
         out == ExecuteCtlStep(step, context_variables, context_results, files, response)
     IN /\ response \in ResponsesFor(step)
        /\ ctl_steps' = [ctl_steps EXCEPT ![step_id] = out.step]
        /\ context_variables' = out.variables
        /\ context_results' = out.results
        /\ files' = out.files
        /\ ctl_trace' = Append(ctl_trace, [id |-> step_id, files |-> files,
                                            variables |-> context_variables,
                                            steps |-> ctl_steps])
        /\ ctl_results' = (step_id :> [success |-> out.success, status |-> out.step.status,
                                        result |-> out.step.result, error |-> out.step.error])
                            @@ ctl_results
        /\ IF LoopBreaks(out.success)
           THEN ctl_index' = ctl_index /\ ctl_pc' = "returned"
           ELSE ctl_index' = ctl_index + 1 /\ ctl_pc' = ctl_pc
  /\ UNCHANGED <<model, step_keys, step_order, dependencies>>
  /\ UNCHANGED <<wfonly, apivars>>

\* the loop of execute() is over
CtlReturn ==
  /\ ctl_pc = "running"
  /\ ctl_index > Len(step_order)
  /\ ctl_pc' = "returned"
  /\ UNCHANGED <<model, ctl_steps, step_keys, step_order, context_variables,
          context_results,
                 ctl_index, ctl_results, ctl_trace, dependencies>>
  /\ UNCHANGED <<wfonly, files, apivars>>

\* execute() is called again on the controller, after an earlier call
\* returned: the steps keep the status, result and error they have
CtlExecuteAgain ==
  /\ ctl_pc = "returned"
  /\ ctl_results' = <<>>
  /\ ctl_index' = 1
  /\ ctl_pc' = "running"
  /\ ctl_trace' = <<>>
  /\ UNCHANGED <<model, ctl_steps, step_keys, step_order, context_variables,
          context_results,
                 dependencies>>
  /\ UNCHANGED <<wfonly, files, apivars>>

\* a controller built by add_step calls and executed, any number of times
NextCtl ==
  \/ \E m \in {AModel, PyNone} : NewController(m)
  \/ \E step \in CtlSteps : CtlAddStep(step)
  \/ CtlExecute
  \/ CtlExecuteAgain
  \/ \E response \in GenOutcomes : CtlStep(response)
  \/ CtlReturn

\* ------------------------------------------- writes into directories
\* the states of the file system: what exists stands in a directory
FsStates ==
  { fs \in [FsPaths -> {NoFile, IsDir, "c0"}] :
      \A p \in FsPaths : fs[p] # NoFile => DirExists(fs, ParentOf(p)) }

InitFs ==
  /\ files \in FsStates
  /\ Constructed

FileWriteInto(path) ==
  [t |-> "file_operation", args |-> [operation |-> "write", filename |-> path, previous_step |-> "a"]]

\* a generation step whose code the next step writes to a path
FsDocs ==
  { Doc("a", DocStep(CodeGen, NoCond, "b", None),
             DocStep(FileWriteInto(path), NoCond, None, None)) : path \in FsPaths }

\* one session on one file system: a workflow is loaded and executed, and
\* before it is loaded or after it has returned a controller is built and
\* executed
NextFs ==
  \/ ctl_pc = "none" /\ \E data \in FsDocs : FromDict(data)
  \/ \E sf \in StartFroms : Execute(sf)
  \/ \E env \in [gen : GenOutcomes, input : InputOutcomes] : RunStep(env)
  \/ Finish
  \/ pc \in {"new", "returned"} /\ \E m \in {AModel, PyNone} : NewController(m)
  \/ \E step \in CtlSteps : CtlAddStep(step)
  \/ CtlExecute
  \/ \E response \in GenOutcomes : CtlStep(response)
  \/ CtlReturn

SpecFs == InitFs /\ [][NextFs]_vars

SpecCtl == InitFs /\ [][NextCtl]_vars

\* ------------------------------------------------------ Workflow.add_step
\* the identifiers and the steps handed to add_step
AddIds == {"", "a", "b"}
AddSteps ==
  { DecodeStep(DocStep(UserInput, NoCond, "b", None)),
    DecodeStep(DocStep(CodeGen, NoCond, None, None)) }

\* mutant: a step stored under the identifier is kept
AddStep_KeepsExisting(step_id, step) ==
  /\ pc \in {"new", "ready"}
  /\ Len(added) < MaxAdds
  /\ steps' = steps @@ (step_id :> step)
  /\ start_step' = IF ~IsSet(start_step) THEN step_id ELSE start_step
  /\ added' = Append(added, [id |-> step_id, step |-> step])
  /\ pc' = "ready"
  /\ encoded' = NoDoc
  /\ UNCHANGED <<name, description, results, interactive_mode, files, current_step_id,
                 start_from, trace, outcome, doc, runs>>
  /\ UNCHANGED <<apivars, ctlvars, answers>>

\* mutant: every call sets start_step
AddStep_MovesStart(step_id, step) ==
  /\ pc \in {"new", "ready"}
  /\ Len(added) < MaxAdds
  /\ steps' = (step_id :> step) @@ steps
  /\ start_step' = step_id
  /\ added' = Append(added, [id |-> step_id, step |-> step])
  /\ pc' = "ready"
  /\ encoded' = NoDoc
  /\ UNCHANGED <<name, description, results, interactive_mode, files, current_step_id,
                 start_from, trace, outcome, doc, runs>>
  /\ UNCHANGED <<apivars, ctlvars, answers>>

\* Workflow.add_step(step_id, step), before the first execute(): the test
\* "not self.start_step" holds for None and for the empty identifier
AddStep(step_id, step) ==
  /\ pc \in {"new", "ready"}
  /\ Len(added) < MaxAdds
  /\ steps' = (step_id :> step) @@ steps
  /\ start_step' = IF ~IsSet(start_step) THEN step_id ELSE start_step
  /\ added' = Append(added, [id |-> step_id, step |-> step])
  /\ pc' = "ready"
  /\ encoded' = NoDoc
  /\ UNCHANGED <<name, description, results, interactive_mode, files, current_step_id,
                 start_from, trace, outcome, doc, runs>>
  /\ UNCHANGED <<apivars, ctlvars, answers>>

\* a workflow built by add_step calls and executed once
NextBuild ==
  \/ \E step_id \in AddIds, step \in AddSteps : AddStep(step_id, step)
  \/ \E sf \in StartFroms : Execute(sf)
  \/ Finish
  \/ UnknownStep
  \/ \E env \in [gen : GenOutcomes, input : InputOutcomes] : RunStep(env)

SpecBuild == Init /\ [][NextBuild]_vars

\* ------------------------------------------------------------- start_step
\* documents of the two steps add_step is given, with start_step left out,
\* null, or naming a step
StartDocs ==
  LET a == DocStep(UserInput, NoCond, "b", None)
      b == DocStep(CodeGen, NoCond, None, None)
  IN { [name |-> "wf", description |-> "no start", steps |-> [a |-> a, b |-> b]],
       [name |-> "wf", description |-> "no start", steps |-> [a |-> a]],
       Doc(None, a, b), Doc("a", a, b), Doc("b", a, b) }

\* a workflow loaded by from_dict or built by add_step calls, executed once
NextStart ==
  \/ \E data \in StartDocs : FromDict(data)
  \/ \E step_id \in AddIds, step \in AddSteps : AddStep(step_id, step)
  \/ \E sf \in StartFroms : Execute(sf)
  \/ Finish
  \/ UnknownStep
  \/ \E env \in [gen : GenOutcomes, input : InputOutcomes] : RunStep(env)

SpecStart == Init /\ [][NextStart]_vars

\* ---------------------------------------------------- optimize_step_order
\* a TaskDependency, by its source_task_id and target_task_id
Dependency(source, target) == [source_task_id |-> source, target_task_id |-> target]

\* dependency_graph.get(node, []): the targets of the dependencies of the
\* node, in the order of the list
RECURSIVE Dependents(_, _)
Dependents(deps, node) ==
  IF deps = <<>> THEN <<>>
  ELSE IF Head(deps).source_task_id = node
  THEN <<Head(deps).target_task_id>> \o Dependents(Tail(deps), node)
  ELSE Dependents(Tail(deps), node)

\* the local state of the sort: visited, temp_mark, new_order, and whether
\* visit has raised
SortStart == [visited |-> {}, temp_mark |-> {}, new_order |-> <<>>, raised |-> FALSE]

RECURSIVE VisitNode(_, _, _, _)
RECURSIVE VisitDependents(_, _, _, _)
\* visit(node)
VisitNode(node, s, deps, ids) ==
  IF s.raised THEN s
  ELSE IF node \in s.temp_mark THEN [s EXCEPT !.raised = TRUE]
  ELSE IF node \in s.visited THEN s
  ELSE LET marked == [s EXCEPT !.temp_mark = @ \cup {node}]
           done == VisitDependents(Dependents(deps, node), marked, deps, ids)
       IN IF done.raised THEN done
          ELSE [done EXCEPT !.temp_mark = @ \ {node},
                            !.visited = @ \cup {node},
                            !.new_order = Append(@, node)]
\* the loop of visit over the dependents that are steps of the workflow
VisitDependents(nodes, s, deps, ids) ==
  IF nodes = <<>> \/ s.raised THEN s
  ELSE VisitDependents(Tail(nodes),
                       IF Head(nodes) \in ids THEN VisitNode(Head(nodes), s, deps, ids) ELSE s,
                       deps, ids)

\* the loop over all_nodes
RECURSIVE VisitAll(_, _, _, _)
VisitAll(nodes, s, deps, ids) ==
  IF nodes = <<>> \/ s.raised THEN s
  ELSE VisitAll(Tail(nodes),
                IF Head(nodes) \notin s.visited THEN VisitNode(Head(nodes), s, deps, ids) ELSE s,
                deps, ids)

\* list(reversed(order))
RECURSIVE Reversed(_)
Reversed(order) ==
  IF order = <<>> THEN <<>> ELSE Append(Reversed(Tail(order)), Head(order))

\* mutant: the order found by the sort is stored as it is
NewStepOrder_NotReversed(keys, deps, ids) == VisitAll(keys, SortStart, deps, ids).new_order

\* the value assigned to workflow.step_order when no visit raises
NewStepOrder(keys, deps, ids) == Reversed(VisitAll(keys, SortStart, deps, ids).new_order)

\* mutant: a circular dependency ends the sort without an error
SortRaises_Never(keys, deps, ids) == FALSE

\* visit raises the circular-dependency error
SortRaises(keys, deps, ids) == VisitAll(keys, SortStart, deps, ids).raised

\* optimize_step_order(workflow, dependencies): the sort goes over the keys
\* of workflow.steps, in the order the dict keeps them
OptimizeStepOrder(deps) ==
  /\ ctl_pc = "ready"
  /\ ~SortRaises(step_keys, deps, DOMAIN ctl_steps)
  /\ step_order' = NewStepOrder(step_keys, deps, DOMAIN ctl_steps)
  /\ dependencies' = deps
  /\ ctl_pc' = "ordered"
  /\ UNCHANGED <<model, ctl_steps, step_keys, context_variables, context_results, ctl_index,
                 ctl_results, ctl_trace>>
  /\ UNCHANGED <<wfonly, files, apivars>>

\* optimize_step_order raises: the assignment of its last line is not reached
OptimizeStepOrderFails(deps) ==
  /\ ctl_pc = "ready"
  /\ SortRaises(step_keys, deps, DOMAIN ctl_steps)
  /\ dependencies' = deps
  /\ ctl_pc' = "order_failed"
  /\ UNCHANGED <<model, ctl_steps, step_keys, step_order, context_variables,
          context_results,
                 ctl_index, ctl_results, ctl_trace>>
  /\ UNCHANGED <<wfonly, files, apivars>>

\* the steps and the dependency lists of the controllers that are ordered:
\* x is the identifier of no step
OrderIds == {"s", "t", "u"}
OrderSteps == {CodeGenerationStep(id, "t", None) : id \in OrderIds}
DependencyPairs ==
  {Dependency(a, b) : a, b \in OrderIds} \cup {Dependency("s", "x"), Dependency("x", "s")}
DependencyLists == UNION {[1..n -> DependencyPairs] : n \in 0..MaxDeps}

\* a controller is built by add_step calls and its steps are ordered
NextOrder ==
  \/ \E m \in {AModel} : NewController(m)
  \/ \E step \in OrderSteps : CtlAddStep(step)
  \/ \E deps \in DependencyLists : OptimizeStepOrder(deps)
  \/ \E deps \in DependencyLists : OptimizeStepOrderFails(deps)

SpecOrder == Init /\ [][NextOrder]_vars

\* ------------------------------------------- WorkflowController.from_dict
\* the entries of the steps mapping of a controller document
GenData(id) ==
  [step_id |-> id, type |-> "CodeGenerationStep", description |-> "d", task |-> "t",
   status |-> "completed"]
WriteData(id) ==
  [step_id |-> id, type |-> "FileOperationStep", description |-> "d", operation |-> "write",
   file_path |-> "f", content_variable |-> "s_code", status |-> "pending"]

\* WorkflowStep.from_dict(step_data): the class is looked up by type and
\* builds the step, whose status is pending whatever the document says
CtlDecodeStep(data) ==
  IF data.type = "CodeGenerationStep"
  THEN CodeGenerationStep(data.step_id, data.task, Get(data, "output_variable", None))
  ELSE FileOperationStep(data.step_id, data.operation, data.file_path,
                         Get(data, "content_variable", None))

\* controller.add_step(step) for each entry of the document, in its order,
\* on [steps, keys, order]
RECURSIVE AddSteps_FromDict(_, _)
AddSteps_FromDict(entries, c) ==
  IF entries = <<>> THEN c
  ELSE LET step == CtlDecodeStep(Head(entries))
           id == step.step_id
       IN AddSteps_FromDict(Tail(entries),
            [steps |-> (id :> step) @@ c.steps,
             keys |-> IF id \in DOMAIN c.steps THEN c.keys ELSE Append(c.keys, id),
             order |-> IF InOrder(c.order, id) THEN c.order ELSE Append(c.order, id)])

\* controller documents: the entries of steps in the order of the mapping,
\* and step_order, which is left out, as to_dict writes it, or names a step
\* twice or an identifier that has no step
CtlDocs ==
  { [goal |-> "g", steps |-> entries] :
      entries \in {<<GenData("s"), WriteData("t")>>, <<WriteData("t"), GenData("s")>>} }
  \cup
  { [goal |-> "g", steps |-> entries, step_order |-> order] :
      entries \in {<<>>, <<GenData("s")>>, <<GenData("s"), WriteData("t")>>},
      order \in {<<>>, <<"s">>, <<"s", "t">>, <<"t", "s">>, <<"s", "s">>, <<"x", "s">>} }

\* WorkflowController.from_dict(data, model_interface)
CtlFromDict(data, model_interface) ==
  /\ ctl_pc = "none"
  /\ LET c == AddSteps_FromDict(data.steps,
                [steps |-> <<>>, keys |-> <<>>, order |-> Get(data, "step_order", <<>>)])
     IN /\ ctl_steps' = c.steps
        /\ step_keys' = c.keys
        /\ step_order' = c.order
  /\ model' = model_interface
  /\ context_variables' = SetVariable(context_variables, "model_interface", model_interface)
  /\ ctl_pc' = "ready"
  /\ UNCHANGED <<context_results, ctl_index, ctl_results, ctl_trace, dependencies>>
  /\ UNCHANGED <<wfonly, files, apivars>>

\* self.steps[step_id] raises KeyError in the loop of execute()
CtlLookupFails ==
  /\ ctl_pc = "running"
  /\ ctl_index <= Len(step_order)
  /\ step_order[ctl_index] \notin DOMAIN ctl_steps
  /\ ctl_pc' = "raised"
  /\ UNCHANGED <<model, ctl_steps, step_keys, step_order, context_variables,
                 context_results, ctl_index, ctl_results, ctl_trace, dependencies>>
  /\ UNCHANGED <<wfonly, files, apivars>>

\* optimize_step_order has returned and the controller is used further
OrderedGoesOn ==
  /\ ctl_pc = "ordered"
  /\ ctl_pc' = "ready"
  /\ UNCHANGED <<model, ctl_steps, step_keys, step_order, context_variables,
                 context_results, ctl_index, ctl_results, ctl_trace, dependencies>>
  /\ UNCHANGED <<wfonly, files, apivars>>

LoadSteps ==
  { CodeGenerationStep("s", "t", None), CodeGenerationStep("t", "t", None),
    FileOperationStep("s", "read", "f", None), FileOperationStep("t", "write", "f", "s_code") }
LoadDependencies ==
  { <<>>, <<Dependency("s", "t")>>, <<Dependency("t", "s")>>,
    <<Dependency("s", "t"), Dependency("t", "s")>> }

\* a controller is made by the constructor or by from_dict, steps are added
\* and ordered in any sequence, and it is executed
NextLoad ==
  \/ NewController(AModel)
  \/ \E data \in CtlDocs : CtlFromDict(data, AModel)
  \/ \E step \in LoadSteps : CtlAddStep(step)
  \/ \E deps \in LoadDependencies : OptimizeStepOrder(deps)
  \/ \E deps \in LoadDependencies : OptimizeStepOrderFails(deps)
  \/ OrderedGoesOn
  \/ CtlExecute
  \/ \E response \in GenOutcomes : CtlStep(response)
  \/ CtlLookupFails
  \/ CtlReturn

SpecLoad == Init /\ [][NextLoad]_vars

\* ------------------------------------------------------------------ loops
\* step a is a LOOP over the body b, and both successors of b are a
LoopDocs ==
  { Doc("a", DocStep(Loop(c, "b"), NoCond, None, None), DocStep(kb, NoCond, "a", "a")) :
      c \in {Lit("True"), Ref("b", "input"), NotRef("b", "input")},
      kb \in {CodeGen, UserInput} }

\* one execute() call, without the confirmation gate, on such a workflow
NextLoop ==
  \/ \E data \in LoopDocs : FromDict(data)
  \/ \E sf \in StartFroms : Execute(sf)
  \/ \E env \in [gen : GenOutcomes, input : InputOutcomes] : RunStep(env)
  \/ Finish

SpecLoop == Init /\ [][NextLoop]_vars

\* ------------------------------------------------------------ termination
\* workflows of every kind of step and edge: a chain, a guarded step, a
\* CONDITIONAL, a LOOP whose body does not lead back, an edge to an
\* identifier that is no step, and a cycle
FairDocs ==
  { Doc("a", DocStep(CodeGen, NoCond, "b", None), DocStep(UserInput, NoCond, None, None)),
    Doc("a", DocStep(CodeGen, Lit("False"), None, "b"), DocStep(CodeGen, NoCond, None, None)),
    Doc("a", DocStep(Conditional(Ref("b", "input")), NoCond, "b", "b"),
             DocStep(UserInput, NoCond, None, None)),
    Doc("a", DocStep(Loop(Lit("True"), "b"), NoCond, None, None),
             DocStep(CodeGen, NoCond, None, None)),
    Doc("a", DocStep(UserInput, NoCond, "b", None), DocStep(CodeGen, NoCond, Dangling, None)),
    Doc("a", DocStep(UserInput, NoCond, "b", None), DocStep(UserInput, NoCond, "a", "a")) }

\* what execute() does by itself: it processes the current step, reading the
\* line a USER_INPUT step waits for, or ends
EngineStep ==
  \/ Finish
  \/ UnknownStep
  \/ GuardSkip
  \/ \E env \in [gen : GenOutcomes, input : InputOutcomes] : RunStep(env)

\* the confirmation gate reads an input, which it returns on
GateDecides ==
  \/ ConfirmYes
  \/ ConfirmNo
  \/ \E lines \in EditLines : ConfirmEdit(lines)
  \/ ConfirmRaises

\* the confirmation gate reads an input
GateReads ==
  \/ GateDecides
  \/ \E input \in GateInputs : ConfirmAgain(input)

NextFair ==
  \/ \E data \in FairDocs : FromDict(data)
  \/ \E interactive \in BOOLEAN : SetInteractiveMode(interactive)
  \/ \E sf \in StartFroms : Execute(sf)
  \/ EngineStep
  \/ GateReads

\* execute() is sequential code: once called it goes on while it can, and
\* the line a USER_INPUT step reads arrives
SpecFair == Init /\ [][NextFair]_vars /\ WF_vars(EngineStep)
\* ------------------------------------------------------------ properties
\* the identifier the traversal held after the i-th visit
NextOf(i) == IF i < Len(trace) THEN trace[i + 1].id ELSE current_step_id
Visits == 1..Len(trace)
\* the gate was not consulted, or let the traversal go on
Passed(i) == trace[i].gate \in {"none", "y", "e"}
\* the gate has not answered yet
Pending(i) == trace[i].gate = "asked"
\* the identifier the run started at
Start == IF IsSet(start_from) THEN start_from ELSE start_step
Ended == outcome \in {"finished", "unknown_step", "rejected"}
Stopped == ~IsSet(current_step_id) \/ current_step_id \notin DOMAIN steps

\* no step has a guard, and none is a CONDITIONAL or a LOOP, the two types
\* whose records carry next_step
PlainRun ==
  /\ \A id \in DOMAIN steps : steps[id].condition.op = "None"
  /\ \A id \in DOMAIN steps : steps[id].step_type \notin {"CONDITIONAL", "LOOP"}
  /\ \A i \in Visits : "next_step" \notin DOMAIN trace[i].rec

\* the visits are the chain start, next_on_success, next_on_success, ...
SuccessChain ==
  /\ Len(trace) > 0 => trace[1].id = Start
  /\ \A i \in Visits : ~Pending(i) => NextOf(i) = steps[trace[i].id].next_on_success
  /\ Ended => Stopped

\* C1 as stated: in a run of a workflow without guards and without next_step
\* records, the steps processed are exactly the chain of next_on_success
\* successors from the start, up to the first absent or missing identifier.
C1_ChainAlways == PlainRun => SuccessChain

\* no execution raised and every confirmation asked was answered by an
\* accept or an edit
NothingRaisedOrRejected ==
  \A i \in Visits : trace[i].how # "raised" /\ (Passed(i) \/ Pending(i))

\* C1 amended: in a run of a workflow without guards and without next_step
\* records in which no step execution raises and every confirmation is
\* accepted, the steps processed are exactly the chain of next_on_success
\* successors from the start (start_from if given, else start_step), up to
\* the first absent or missing identifier.
C1_ChainWhenNothingRaises == (PlainRun /\ NothingRaisedOrRejected) => SuccessChain

C1_Witness ==
  /\ outcome = "finished" /\ PlainRun /\ NothingRaisedOrRejected
  /\ Len(trace) = 2 /\ trace[1].id # trace[2].id
  /\ steps[trace[1].id].next_on_failure # steps[trace[1].id].next_on_success

\* C2: after a step returned a record and the traversal went on (the gate
\* not consulted, or answered by accept or edit), the identifier chosen is
\* the record's next_step when the record has that key and the step's
\* next_on_success otherwise.
C2_NextStepPreferred ==
  \A i \in Visits :
    (trace[i].how = "returned" /\ Passed(i)) =>
      NextOf(i) = IF "next_step" \in DOMAIN trace[i].rec
                  THEN PyToId(trace[i].rec["next_step"])
                  ELSE steps[trace[i].id].next_on_success

\* a record with next_step was followed although next_on_success differs, and
\* a record without it was followed by next_on_success, not next_on_failure
C2_Witness ==
  /\ Len(trace) = 2
  /\ trace[1].how = "returned" /\ "next_step" \in DOMAIN trace[1].rec
  /\ trace[2].id = PyToId(trace[1].rec["next_step"])
  /\ trace[2].id # steps[trace[1].id].next_on_success
  /\ trace[2].how = "returned" /\ "next_step" \notin DOMAIN trace[2].rec
  /\ steps[trace[2].id].next_on_success # steps[trace[2].id].next_on_failure
  /\ pc = "running" /\ current_step_id = steps[trace[2].id].next_on_success
\* the result store right after the i-th visit, for a visit without a gate
ResultsAfter(i) == IF i < Len(trace) THEN trace[i + 1].before ELSE results
StepOf(i) == steps[trace[i].id]

\* C3 as stated: a visit that leaves a record with an error field, returned
\* by the executor or stored for a raised exception, is followed by the
\* step's next_on_failure.
C3_ErrorRecordFollowsFailure ==
  \A i \in Visits :
    (\/ trace[i].how = "raised"
     \/ trace[i].how = "returned" /\ "error" \in DOMAIN trace[i].rec /\ Passed(i))
    => NextOf(i) = StepOf(i).next_on_failure

\* C4: a visit whose execution raised leaves exactly {"error": message}
\* under the identifier, every other record as it was, the step's
\* next_on_failure as the current identifier, and the loop going on: the
\* only errors execute() lets out are its own two ValueErrors.
C4_RaiseIsRecordedAndRouted ==
  /\ \A i \in Visits :
       trace[i].how = "raised" =>
         /\ ResultsAfter(i) = (trace[i].id :> [error |-> PyStr(trace[i].exc)]) @@ trace[i].before
         /\ NextOf(i) = StepOf(i).next_on_failure
  /\ pc = "raised" => outcome \in {"no_start", "unknown_step"}
  /\ (Len(trace) > 0 /\ trace[Len(trace)].how = "raised" /\ pc = "raised")
       => current_step_id \notin DOMAIN steps

\* a step that had a record raised; the record is replaced, the run goes on
C4_Witness ==
  /\ Len(trace) = 4 /\ trace[4].how = "raised" /\ trace[4].exc = "generation failed"
  /\ trace[4].id \in DOMAIN trace[4].before
  /\ "code" \in DOMAIN trace[4].before[trace[4].id]
  /\ results[trace[4].id] = [error |-> PyStr("generation failed")]
  /\ StepOf(4).next_on_failure # StepOf(4).next_on_success
  /\ pc = "running" /\ current_step_id = StepOf(4).next_on_failure

\* the value of the field a condition refers to, None when absent
FieldValue(cond, res) ==
  IF cond.a \in DOMAIN res /\ cond.b \in DOMAIN res[cond.a]
  THEN res[cond.a][cond.b] ELSE PyNone

\* the evaluation of the condition string raises
Broken(cond, res) ==
  \/ cond.op = "bad"
  \/ cond.op = "len" /\ FieldValue(cond, res).ty # "str"

\* the condition string is true
Holds(cond, res) ==
  CASE cond.op = "lit" -> cond.a = "True"
    [] cond.op = "ref" -> Truthy(FieldValue(cond, res))
    [] cond.op = "not" -> ~Truthy(FieldValue(cond, res))
    [] cond.op = "len" -> ~Broken(cond, res) /\ FieldValue(cond, res).v # ""
    [] OTHER -> FALSE

ConditionalVisits ==
  {i \in Visits : trace[i].how = "returned" /\ StepOf(i).step_type = "CONDITIONAL"}

\* C5: a CONDITIONAL step returns condition = true and next_step =
\* next_on_success when its condition is true, condition = false and
\* next_step = next_on_failure when it is false, and the traversal, when it
\* goes on, goes to that next_step.
C5_ConditionalBranches ==
  \A i \in ConditionalVisits :
    LET v == Holds(StepOf(i).arguments.condition, trace[i].before)
        target == IF v THEN StepOf(i).next_on_success ELSE StepOf(i).next_on_failure
    IN /\ trace[i].rec = [condition |-> PyBool(v), next_step |-> IdToPy(target)]
       /\ Passed(i) => NextOf(i) = target

\* one CONDITIONAL took its false branch and later its true branch
C5_Witness ==
  \E i, j \in ConditionalVisits :
    /\ i < j /\ trace[i].id = trace[j].id
    /\ StepOf(i).next_on_success # StepOf(i).next_on_failure
    /\ trace[i].rec["condition"] = PyBool(FALSE)
    /\ NextOf(i) = StepOf(i).next_on_failure
    /\ trace[j].rec["condition"] = PyBool(TRUE)
    /\ j = Len(trace) /\ pc # "confirm" /\ current_step_id = StepOf(j).next_on_success

LoopVisits(id) ==
  {i \in Visits : trace[i].id = id /\ trace[i].how = "returned"
                   /\ StepOf(i).step_type = "LOOP"}
LoopHolds(i) == Holds(StepOf(i).arguments.condition, trace[i].before)
Redirected(i) ==
  /\ trace[i].rec = [loop |-> PyBool(TRUE), next_step |-> PyStr(StepOf(i).arguments.body_step)]
  /\ NextOf(i) = StepOf(i).arguments.body_step
FellThrough(i) ==
  /\ trace[i].rec = [loop |-> PyBool(FALSE), next_step |-> IdToPy(StepOf(i).next_on_success)]
  /\ Passed(i) => NextOf(i) = StepOf(i).next_on_success

\* C6: a LOOP step whose condition is true at its first N evaluations and
\* false at the next one has redirected the traversal to body_step exactly N
\* times (loop = true, next_step = body_step) and at evaluation N+1 falls
\* through to next_on_success (loop = false, next_step = next_on_success).
C6_LoopRedirectsNTimes ==
  \A id \in DOMAIN steps : \A i \in LoopVisits(id) :
    LET earlier == {j \in LoopVisits(id) : j < i}
    IN /\ (LoopHolds(i) /\ Passed(i)) => Redirected(i)
       /\ (~LoopHolds(i) /\ \A j \in earlier : LoopHolds(j) /\ Passed(j)) =>
            /\ Cardinality({j \in Visits : j < i /\ trace[j].id = id /\ Redirected(j)})
                 = Cardinality(earlier)
            /\ FellThrough(i)

\* N = 2: two redirections to the body, then the fall-through
C6_Witness ==
  /\ Len(trace) = 5 /\ pc = "returned" /\ outcome = "finished"
  /\ LoopVisits("a") = {1, 3, 5}
  /\ LoopHolds(1) /\ LoopHolds(3) /\ ~LoopHolds(5)
  /\ Redirected(1) /\ Redirected(3) /\ FellThrough(5)
  /\ trace[2].id = "b" /\ trace[4].id = "b"

\* C7: after a rejection at the gate execute() has returned; the rejected
\* visit is the last one of the run, and the result store holds its record
\* and a record for every step executed before it.
C7_RejectionHalts ==
  outcome = "rejected" =>
    LET n == Len(trace)
    IN /\ pc = "returned" /\ interactive_mode /\ n > 0
       /\ trace[n].gate = "n" /\ trace[n].how = "returned"
       /\ \A i \in 1..(n - 1) : trace[i].gate # "n"
       /\ results = (trace[n].id :> trace[n].rec) @@ trace[n].before
       /\ \A i \in Visits : trace[i].how # "skipped" => trace[i].id \in DOMAIN results

\* the second step of a run was rejected
C7_Witness ==
  /\ outcome = "rejected" /\ Len(trace) = 2 /\ trace[1].id # trace[2].id
  /\ IsSet(NextAfterSuccess(trace[2].rec, StepOf(2)))
  /\ DOMAIN results = {trace[1].id, trace[2].id}

\* C8: to_dict() after from_dict(D) on a fresh workflow returns D, for every
\* document D that has all the keys of the format.
C8_RoundTrip == (encoded # NoDoc /\ WellFormed(doc)) => encoded = doc

C8_Witness ==
  /\ encoded # NoDoc /\ WellFormed(doc)
  /\ doc.steps["a"].condition # NoCond
  /\ doc.steps["a"].next_on_success # doc.steps["a"].next_on_failure

\* C9: a step whose guard is false without an evaluation error is not
\* executed: the visit leaves the result store as it was and is followed by
\* the step's next_on_failure.
C9_FalseGuardSkips ==
  \A i \in Visits :
    LET cond == StepOf(i).condition
    IN (cond.op # "None" /\ ~Holds(cond, trace[i].before) /\ ~Broken(cond, trace[i].before)) =>
         /\ trace[i].how = "skipped"
         /\ ResultsAfter(i) = trace[i].before
         /\ NextOf(i) = StepOf(i).next_on_failure

\* a guarded step was skipped while the store held records
C9_Witness ==
  /\ Len(trace) = 2 /\ trace[2].how = "skipped"
  /\ ~Broken(StepOf(2).condition, trace[2].before)
  /\ trace[2].before # <<>> /\ results = trace[2].before
  /\ StepOf(2).next_on_failure # StepOf(2).next_on_success
  /\ current_step_id = StepOf(2).next_on_failure

GuardErrors ==
  {i \in Visits : StepOf(i).condition.op # "None" /\ Broken(StepOf(i).condition, trace[i].before)}
GuardMessage(i) == PyEval(EvalCondition(StepOf(i).condition, trace[i].before)).msg

\* C10 as stated: when the evaluation of the guard raises, the step is not
\* executed, the record under the identifier is {"error": message}, also
\* when the identifier had a record, and next_on_failure follows.
C10_GuardErrorRecordIsErrorOnly ==
  \A i \in GuardErrors :
    /\ trace[i].how = "skipped"
    /\ ResultsAfter(i)[trace[i].id] = [error |-> PyStr(GuardMessage(i))]
    /\ NextOf(i) = StepOf(i).next_on_failure

\* C10 amended: when the evaluation of the guard raises, the step is not
\* executed, the record under the identifier has its error field set to
\* the message, being {"error": message} when the identifier had no record
\* and the earlier record with that field added or replaced when it had
\* one, every other record is unchanged, and next_on_failure follows.
C10_GuardErrorIsMerged ==
  \A i \in GuardErrors :
    LET id == trace[i].id
        old == IF id \in DOMAIN trace[i].before THEN trace[i].before[id] ELSE <<>>
    IN /\ trace[i].how = "skipped"
       /\ ResultsAfter(i)[id]["error"] = PyStr(GuardMessage(i))
       /\ id \notin DOMAIN trace[i].before =>
            ResultsAfter(i)[id] = [error |-> PyStr(GuardMessage(i))]
       /\ \A k \in DOMAIN old \ {"error"} :
            k \in DOMAIN ResultsAfter(i)[id] /\ ResultsAfter(i)[id][k] = old[k]
       /\ DOMAIN ResultsAfter(i)[id] = DOMAIN old \cup {"error"}
       /\ DOMAIN ResultsAfter(i) = DOMAIN trace[i].before \cup {id}
       /\ \A other \in DOMAIN trace[i].before \ {id} :
            ResultsAfter(i)[other] = trace[i].before[other]
       /\ NextOf(i) = StepOf(i).next_on_failure

\* the guard of a step that already had a record raised
C10_Witness ==
  \E i \in GuardErrors :
    /\ i = Len(trace)
    /\ trace[i].id \in DOMAIN trace[i].before
    /\ "code" \in DOMAIN trace[i].before[trace[i].id]
    /\ "code" \in DOMAIN results[trace[i].id]
    /\ "error" \in DOMAIN results[trace[i].id]

\* the traversal holds an identifier that is set and is not a key of steps
AtUnknownStep ==
  pc = "running" /\ IsSet(current_step_id) /\ current_step_id \notin DOMAIN steps

\* C11: when the current identifier is set and is not a key of steps (a
\* successor that no step defines, or such a start_from), the only thing
\* execute() does is fail: it does not return, no step is executed for the
\* identifier (no visit is added, no file is touched) and the result store
\* keeps every record the earlier steps of the run stored.
C11_UnknownStepFails ==
  [][AtUnknownStep =>
       /\ pc' = "raised" /\ outcome' = "unknown_step"
       /\ trace' = trace /\ files' = files /\ results' = results
       /\ current_step_id' = current_step_id]_vars

\* the run failed on a dangling successor after a step had stored its record
C11_Witness ==
  /\ outcome = "unknown_step" /\ pc = "raised"
  /\ current_step_id = Dangling
  /\ Len(trace) = 1 /\ trace[1].how = "returned"
  /\ trace[1].id \in DOMAIN results /\ results[trace[1].id] = trace[1].rec

\* the step of the model is an entry into execute()
Called == runs' = runs + 1

\* C12: execute() called without start_from on a workflow whose start_step
\* is absent fails, before any step is executed (the run has no visit and no
\* file is touched), and the result store is what it was before the call.
C12_NoStartFails ==
  [][(Called /\ ~IsSet(start_from') /\ ~IsSet(start_step)) =>
       /\ pc' = "raised" /\ outcome' = "no_start"
       /\ trace' = <<>> /\ files' = files /\ results' = results]_vars

\* the second call had no start identifier; the record stored by the first
\* call, execute(start_from = b), is still there
C12_Witness ==
  /\ outcome = "no_start" /\ pc = "raised" /\ runs = 2
  /\ ~IsSet(start_from) /\ ~IsSet(start_step)
  /\ trace = <<>>
  /\ "b" \in DOMAIN results

\* executed CONDITIONAL and LOOP steps with their required arguments
ControlVisits ==
  {i \in Visits :
     /\ trace[i].how # "skipped"
     /\ \/ StepOf(i).step_type = "CONDITIONAL" /\ "condition" \in DOMAIN StepOf(i).arguments
        \/ StepOf(i).step_type = "LOOP"
             /\ {"condition", "body_step"} \subseteq DOMAIN StepOf(i).arguments}
\* those whose condition argument raises when it is evaluated
ControlErrors ==
  {i \in ControlVisits : Broken(StepOf(i).arguments.condition, trace[i].before)}

\* C13: an error of substitution or evaluation never leaves the evaluator,
\* which answers false: a step whose guard is broken is skipped and followed
\* by next_on_failure, a CONDITIONAL whose condition is broken returns
\* condition = false with next_step = next_on_failure, and a LOOP whose
\* condition is broken returns loop = false with next_step = next_on_success;
\* none of these visits ends in a raised exception.
C13_EvaluationErrorsAreCaught ==
  /\ \A i \in GuardErrors :
       trace[i].how = "skipped" /\ NextOf(i) = StepOf(i).next_on_failure
  /\ \A i \in ControlErrors :
       /\ trace[i].how = "returned"
       /\ StepOf(i).step_type = "CONDITIONAL" =>
            trace[i].rec = [condition |-> PyBool(FALSE),
                            next_step |-> IdToPy(StepOf(i).next_on_failure)]
       /\ StepOf(i).step_type = "LOOP" =>
            trace[i].rec = [loop |-> PyBool(FALSE),
                            next_step |-> IdToPy(StepOf(i).next_on_success)]

\* a CONDITIONAL with a broken condition sent the traversal to its failure
\* successor, which differs from its success successor and has been executed
C13_Witness ==
  /\ Len(trace) = 2 /\ 1 \in ControlErrors
  /\ StepOf(1).step_type = "CONDITIONAL"
  /\ StepOf(1).next_on_failure # StepOf(1).next_on_success
  /\ trace[2].id = StepOf(1).next_on_failure
  /\ trace[2].how = "returned"

\* C14 as stated: every error of condition evaluation, of a guard or of the
\* condition argument of a CONDITIONAL or LOOP step, leaves an error field in
\* the record stored under the identifier of the step being processed.
C14_ConditionErrorIsRecorded ==
  \A i \in GuardErrors \cup ControlErrors :
    /\ trace[i].id \in DOMAIN ResultsAfter(i)
    /\ "error" \in DOMAIN ResultsAfter(i)[trace[i].id]

\* executed steps that lack an argument their type requires
ConfigErrors ==
  {i \in Visits :
     /\ trace[i].how # "skipped"
     /\ \/ StepOf(i).step_type = "CONDITIONAL" /\ "condition" \notin DOMAIN StepOf(i).arguments
        \/ StepOf(i).step_type = "LOOP"
             /\ ~({"condition", "body_step"} \subseteq DOMAIN StepOf(i).arguments)}

\* C15 as stated: a configuration error inside a step (a CONDITIONAL without
\* condition, a LOOP without condition or body_step) halts the traversal: the
\* step is the last one processed in the run and the run does not go on to
\* any successor, whatever next_on_failure is.
C15_ConfigurationErrorHalts ==
  \A i \in ConfigErrors :
    /\ i = Len(trace)
    /\ pc = "running" => ~IsSet(current_step_id)

\* what the steps and guards of a call read is the store as it is, records
\* of earlier calls included
ReadsTheStore ==
  \A i \in Visits :
    LET step == StepOf(i)
        prev == Get(step.arguments, "previous_step", None)
    IN /\ step.condition.op # "None" =>
            (trace[i].how = "skipped" <=> ~Holds(step.condition, trace[i].before))
       /\ (/\ trace[i].how = "returned"
           /\ "original_code" \in DOMAIN trace[i].rec
           /\ "filename" \notin DOMAIN step.arguments) =>
            /\ prev \in DOMAIN trace[i].before
            /\ trace[i].rec["original_code"] = Get(trace[i].before[prev], "code", PyStr(""))
       /\ (/\ i = Len(trace)
           /\ trace[i].how = "returned"
           /\ "success" \in DOMAIN trace[i].rec
           /\ "content" \notin DOMAIN step.arguments
           /\ prev \in DOMAIN trace[i].before) =>
            files[step.arguments.filename] = Get(trace[i].before[prev], "code", PyStr("")).v

\* C16: the result store persists across execute() calls on one instance: a
\* call leaves the store as the earlier calls left it and, given start_from,
\* starts the traversal there and not at start_step; a record is replaced or
\* changed only when its own identifier is processed again; and the guards
\* and steps of the later call read the records the earlier calls stored.
C16_StorePersists ==
  /\ [][/\ Called =>
             /\ results' = results
             /\ IsSet(start_from') => pc' = "running" /\ current_step_id' = start_from'
        /\ \A id \in DOMAIN results :
             /\ id \in DOMAIN results'
             /\ id # current_step_id => results'[id] = results[id]]_vars
  /\ []((IsSet(start_from) /\ trace # <<>>) => trace[1].id = start_from)
  /\ []ReadsTheStore

\* the second call, execute(start_from = b), executed only b; its guard and
\* its source are the code of the record the first call stored under a
C16_Witness ==
  /\ runs = 2 /\ start_from = "b" /\ start_step = "a"
  /\ outcome = "finished"
  /\ Len(trace) = 1 /\ trace[1].id = "b" /\ trace[1].how = "returned"
  /\ steps["b"].condition = LenRef("a", "code")
  /\ "a" \in DOMAIN results /\ "code" \in DOMAIN results["a"]
  /\ trace[1].rec["original_code"] = results["a"]["code"]

\* the workflow of the example: gen is a, save is b, the file is f
GenThenSave ==
  /\ DOMAIN steps = {"a", "b"} /\ Start = "a" /\ ~interactive_mode
  /\ steps["a"].step_type = "CODE_GENERATION" /\ steps["a"].condition.op = "None"
  /\ steps["a"].next_on_success = "b"
  /\ steps["b"].step_type = "FILE_OPERATION" /\ steps["b"].condition.op = "None"
  /\ steps["b"].arguments = [operation |-> "write", filename |-> "f", previous_step |-> "a"]
  /\ steps["b"].next_on_success = None

\* the generation service answered step a
Answered == Len(trace) >= 1 /\ trace[1].id = "a" /\ trace[1].how = "returned"

\* the run of the example: b follows a, and the finished run has the code
\* under a, {filename, success} under b and the code in the file
GenThenSaveRun ==
  (GenThenSave /\ Answered) =>
    /\ "code" \in DOMAIN trace[1].rec
    /\ NextOf(1) = "b"
    /\ Len(trace) >= 2 =>
         trace[2].how = "returned"
           /\ trace[2].rec = [filename |-> PyStr("f"), success |-> PyBool(TRUE)]
    /\ Ended =>
         /\ outcome = "finished" /\ Len(trace) = 2
         /\ results["a"] = trace[1].rec
         /\ results["b"] = [filename |-> PyStr("f"), success |-> PyBool(TRUE)]
         /\ files["f"] = results["a"]["code"].v

\* executed write steps that name a file, as the last visit of the run so far
LastWrites ==
  {i \in Visits :
     /\ i = Len(trace) /\ trace[i].how = "returned"
     /\ StepOf(i).step_type = "FILE_OPERATION"
     /\ Get(StepOf(i).arguments, "operation", None) = "write"
     /\ "filename" \in DOMAIN StepOf(i).arguments}
\* the code field of the record of previous_step
PreviousCode(i) ==
  Get(trace[i].before[StepOf(i).arguments.previous_step], "code", PyStr("")).v
HasPrevious(i) ==
  /\ "previous_step" \in DOMAIN StepOf(i).arguments
  /\ StepOf(i).arguments.previous_step \in DOMAIN trace[i].before
Wrote(i, text) ==
  /\ trace[i].rec = [filename |-> PyStr(StepOf(i).arguments.filename), success |-> PyBool(TRUE)]
  /\ files[StepOf(i).arguments.filename] = text

\* C17 as stated: the example run ends with the code under gen, {filename,
\* success} under save and the code in the file; and a write step writes its
\* literal content when the content argument is given, and otherwise the
\* code field of the record of previous_step.
C17_WriteUsesLiteralWhenGiven ==
  /\ GenThenSaveRun
  /\ \A i \in LastWrites :
       /\ "content" \in DOMAIN StepOf(i).arguments => Wrote(i, StepOf(i).arguments.content)
       /\ ("content" \notin DOMAIN StepOf(i).arguments /\ HasPrevious(i)) =>
            Wrote(i, PreviousCode(i))

\* C17 amended: the example run ends as stated; and a write step writes its
\* literal content when the content argument is given and is not empty, and
\* otherwise the code field of the record of previous_step (the empty text
\* when that record has no code field); an empty content without such a
\* record writes the empty text.
C17_WriteUsesNonEmptyLiteral ==
  /\ GenThenSaveRun
  /\ \A i \in LastWrites :
       LET literal == Get(StepOf(i).arguments, "content", "")
       IN /\ literal # "" => Wrote(i, literal)
          /\ (literal = "" /\ HasPrevious(i)) => Wrote(i, PreviousCode(i))
          /\ (literal = "" /\ ~HasPrevious(i) /\ "content" \in DOMAIN StepOf(i).arguments) =>
               Wrote(i, "")

\* the example run has finished, with a fenced response: the file holds the
\* extracted code, which differs from the response
C17_Witness ==
  /\ GenThenSave /\ Answered /\ outcome = "finished"
  /\ results["a"]["code"] # results["a"]["full_response"]
  /\ results["b"] = [filename |-> PyStr("f"), success |-> PyBool(TRUE)]
  /\ files["f"] = results["a"]["code"].v

\* executed steps of the five code-reading types
SourceTypes ==
  {"CODE_EDITING", "CODE_REVIEW", "CODE_REFACTORING", "TEST_GENERATION", "DOCUMENTATION"}
SourceVisits ==
  {i \in Visits : trace[i].how # "skipped" /\ StepOf(i).step_type \in SourceTypes}
\* the step asked the generation service about text, and did not end in an
\* error result
Sent(i, text) ==
  /\ trace[i].prompt = text
  /\ trace[i].how = "returned" =>
       /\ "error" \notin DOMAIN trace[i].rec
       /\ "original_code" \in DOMAIN trace[i].rec =>
            trace[i].rec["original_code"] = PyStr(text)
\* the step returned an error result, without raising and without asking
ErrorReturned(i) ==
  /\ trace[i].how = "returned"
  /\ DOMAIN trace[i].rec = {"error"}
  /\ trace[i].prompt = NoPrompt

\* C18: a step of type CODE_EDITING, CODE_REVIEW, CODE_REFACTORING,
\* TEST_GENERATION or DOCUMENTATION takes its source from the file when
\* filename is given, and returns an error result without raising when the
\* file is missing; without filename it takes the code field of the record of
\* previous_step; when there is neither it returns an error result; and a
\* step that returns an error result has not contacted the generation service.
C18_SourceResolution ==
  \A i \in SourceVisits :
    LET args == StepOf(i).arguments
        filename == Get(args, "filename", None)
        prev == Get(args, "previous_step", None)
    IN /\ (filename # None /\ trace[i].files[filename] # NoFile) =>
            Sent(i, trace[i].files[filename])
       /\ (filename # None /\ trace[i].files[filename] = NoFile) => ErrorReturned(i)
       /\ (filename = None /\ prev \in DOMAIN trace[i].before) =>
            Sent(i, Get(trace[i].before[prev], "code", PyStr("")).v)
       /\ (filename = None /\ prev \notin DOMAIN trace[i].before) => ErrorReturned(i)
       /\ (trace[i].how = "returned" /\ "error" \in DOMAIN trace[i].rec) =>
            trace[i].prompt = NoPrompt

\* a review step that names a missing file and also has previous_step, with
\* the record of that step in the store, returned the error result unasked
C18_Witness ==
  /\ Len(trace) = 2 /\ 2 \in SourceVisits
  /\ StepOf(2).step_type = "CODE_REVIEW"
  /\ {"filename", "previous_step"} \subseteq DOMAIN StepOf(2).arguments
  /\ "code" \in DOMAIN trace[2].before[StepOf(2).arguments.previous_step]
  /\ trace[2].files[StepOf(2).arguments.filename] = NoFile
  /\ ErrorReturned(2)
  /\ trace[1].prompt # NoPrompt

\* a step of the document has a step_type that is not the value of a member
Unrecognized(d) ==
  /\ "steps" \in DOMAIN d
  /\ \E id \in DOMAIN d.steps :
       /\ "step_type" \in DOMAIN d.steps[id]
       /\ d.steps[id].step_type \notin
            {StepTypeValue(member) :
               member \in {"CODE_GENERATION", "CODE_EDITING", "CODE_REVIEW", "CODE_REFACTORING",
                           "TEST_GENERATION", "DOCUMENTATION", "USER_INPUT", "FILE_OPERATION",
                           "CONDITIONAL", "LOOP"}}

\* C19: from_dict on a document that lacks the key name or the key
\* description, or in which a step has a step_type that is not the value of a
\* member of the enum, fails with an error and returns no workflow.
C19_FromDictFails ==
  (doc # NoDoc /\ ("name" \notin DOMAIN doc \/ "description" \notin DOMAIN doc \/ Unrecognized(doc)))
    => pc = "failed" /\ outcome = "decode_error"

\* the second step of the document has an unknown step_type: the call failed
\* after it had stored the first step
C19_Witness ==
  /\ pc = "failed" /\ outcome = "decode_error"
  /\ {"name", "description"} \subseteq DOMAIN doc /\ Unrecognized(doc)
  /\ DOMAIN steps = {"a"} /\ name = doc.name

\* the invocation ended in a rate-limit error
RateLimited(out) == ~out.ok /\ IsRateLimit(out.v)
\* the invocations that were followed by another attempt
Retried == IF api_pc = "try" THEN 1..Len(calls) ELSE 1..(Len(calls) - 1)

\* C20: safe_api_call invokes call_func again only after a rate-limit error
\* (a message containing "Resource has been exhausted" or "429"), having
\* slept retry_delay * 2^attempt, attempt counting the failures from 0; it
\* makes at most max_retries invocations; it propagates the error of the
\* max_retries-th rate-limit failure, propagates any other error at once,
\* and returns the value of the first invocation that succeeds.
C20_RetriesOnlyRateLimits ==
  api_pc # "idle" =>
    /\ Len(calls) <= max_retries
    /\ \A i \in Retried : RateLimited(calls[i])
    /\ Len(slept) = Cardinality(Retried)
    /\ \A i \in Retried : slept[i] = retry_delay * (2 ^ (i - 1))
    /\ \A i \in 1..Len(calls) :
         LET last == i = Len(calls)
         IN /\ calls[i].ok => last /\ api_pc = "returned" /\ api_result = calls[i].v
            /\ (~calls[i].ok /\ ~IsRateLimit(calls[i].v)) =>
                 last /\ api_pc = "raised" /\ api_result = calls[i].v
            /\ (RateLimited(calls[i]) /\ i = max_retries) =>
                 last /\ api_pc = "raised" /\ api_result = calls[i].v
            /\ (RateLimited(calls[i]) /\ i < max_retries) => i \in Retried
    /\ (api_pc = "returned" /\ calls # <<>>) => calls[Len(calls)].ok
    /\ api_pc = "raised" => calls # <<>> /\ ~calls[Len(calls)].ok

\* two rate-limit errors, one of each message, were retried after waits of
\* retry_delay and twice retry_delay, and the third invocation succeeded
C20_Witness ==
  /\ api_pc = "returned" /\ max_retries = DefaultMaxRetries /\ retry_delay = DefaultRetryDelay
  /\ Len(calls) = 3 /\ calls[3].ok /\ api_result = calls[3].v
  /\ RateLimited(calls[1]) /\ RateLimited(calls[2]) /\ calls[1] # calls[2]
  /\ slept = <<2, 4>>

\* ------------------------------------------------------------------- C21
NoDirectoryCreated == \A p \in DOMAIN files : files'[p] = IsDir => files[p] = IsDir

\* the workflow executes a FILE_OPERATION write to a path whose parent
\* directory does not exist
WfWritesWithoutDir ==
  /\ pc = "running"
  /\ Len(trace') = Len(trace) + 1
  /\ trace'[Len(trace')].how # "skipped"
  /\ LET args == steps[current_step_id].arguments
     IN /\ steps[current_step_id].step_type = "FILE_OPERATION"
        /\ Get(args, "operation", None) = "write"
        /\ "filename" \in DOMAIN args
        /\ ~DirExists(files, ParentOf(args.filename))

\* the controller executes a step
CtlStepped ==
  /\ ctl_pc = "running"
  /\ ctl_index <= Len(step_order)
  /\ ctl_index' = ctl_index + 1 \/ ctl_pc' = "returned"

CtlStepNow == ctl_steps[step_order[ctl_index]]

\* the controller executes a write to a path whose parent directory does
\* not exist
CtlWritesWithoutDir ==
  /\ CtlStepped
  /\ CtlStepNow.type = "file_operation"
  /\ CtlStepNow.operation = "write"
  /\ ~DirExists(files, ParentOf(CtlStepNow.file_path))

\* the directories a path stands in, the working directory left out
RECURSIVE Ancestors(_)
Ancestors(path) ==
  IF ParentOf(path) = Cwd THEN {}
  ELSE {ParentOf(path)} \cup Ancestors(ParentOf(path))

\* C21 as stated: a write inside step execution whose parent directory does
\* not exist fails and creates no directory, in the FILE_OPERATION write of
\* Workflow (an error result) and in the write of FileOperationStep (a
\* failed step).
C21_WriteWithoutDirFails ==
  [][ /\ WfWritesWithoutDir =>
           /\ "error" \in DOMAIN trace'[Len(trace')].rec
           /\ NoDirectoryCreated
      /\ CtlWritesWithoutDir =>
           /\ ctl_steps'[step_order[ctl_index]].status = "failed"
           /\ NoDirectoryCreated ]_vars

\* C21 amended: the FILE_OPERATION write of Workflow to a path whose parent
\* directory does not exist returns an error result and leaves the files as
\* they were; the write of FileOperationStep fails without touching the
\* files when its content variable is not set or a file stands where a
\* directory is needed, and otherwise creates the missing directories and
\* completes with the content in the file.
C21_OnlyWorkflowWriteNeedsDir ==
  [][ /\ WfWritesWithoutDir =>
           /\ "error" \in DOMAIN trace'[Len(trace')].rec
           /\ files' = files
      /\ CtlWritesWithoutDir =>
           LET step == CtlStepNow
               after == ctl_steps'[step_order[ctl_index]]
               content == GetVariable(context_variables, step.content_variable)
           IN IF \/ content = PyNone
                 \/ \E dir \in Ancestors(step.file_path) : files[dir] \notin {NoFile, IsDir}
              THEN after.status = "failed" /\ files' = files
              ELSE /\ \A dir \in Ancestors(step.file_path) : files'[dir] = IsDir
                   /\ content.ty = "str" =>
                        /\ after.status = "completed"
                        /\ files'[step.file_path] = content.v ]_vars

\* both writes have met a missing directory: the workflow's write to d/g
\* returned an error and left d absent, and then the controller's write to
\* d/g found d absent, created it and completed
C21_Witness ==
  /\ /\ pc = "returned"
     /\ \E i \in Visits :
          /\ StepOf(i).step_type = "FILE_OPERATION"
          /\ StepOf(i).arguments.filename = "d/g"
          /\ trace[i].files["d"] = NoFile
          /\ "error" \in DOMAIN trace[i].rec
  /\ /\ ctl_pc = "returned"
     /\ \E i \in 1..Len(ctl_trace) :
          LET step == ctl_steps[ctl_trace[i].id]
          IN /\ step.type = "file_operation" /\ step.operation = "write"
             /\ step.file_path = "d/g"
             /\ ctl_trace[i].files["d"] = NoFile
             /\ step.status = "completed"
             /\ files["d"] = IsDir /\ files["d/g"] \in {"c1", "c2"}

\* ------------------------------------------------------------------- C22
Adds == 1..Len(added)
AddedIds == {added[k].id : k \in Adds}
\* the last call that added a step under the identifier
LastAdd(id) == CHOOSE k \in Adds : added[k].id = id /\ \A j \in Adds : added[j].id = id => j <= k
\* every identifier holds the step of the last call under it: a call
\* replaces the step of its identifier and leaves the other steps alone
StepsAreLastAdded ==
  /\ DOMAIN steps = AddedIds
  /\ \A id \in AddedIds : steps[id] = added[LastAdd(id)].step

\* C22 as stated: add_step under an identifier that exists replaces the
\* step and leaves every other step unchanged; start_step is the identifier
\* of the first step ever added, whatever is added later.
C22_StartIsFirstAdded ==
  /\ StepsAreLastAdded
  /\ Len(added) > 0 => start_step = added[1].id

\* the calls made under an identifier that is not empty
NamedAdds == {k \in Adds : added[k].id # ""}

\* C22 amended: add_step under an identifier that exists replaces the step
\* and leaves every other step unchanged; start_step is the identifier of
\* the first step added under an identifier that is not empty, whatever is
\* added later, and is the empty identifier while only that has been used.
C22_StartIsFirstNamedAdded ==
  /\ StepsAreLastAdded
  /\ Len(added) > 0 =>
       start_step = IF NamedAdds = {} THEN ""
                    ELSE added[CHOOSE k \in NamedAdds : \A j \in NamedAdds : k <= j].id

\* a step was added under a, replaced by another step under a, and a step
\* under b was added after it: start_step is still a, which holds the second
\* step
C22_Witness ==
  /\ Len(added) = 3
  /\ added[1].id = "a" /\ added[2].id = "a" /\ added[3].id = "b"
  /\ added[1].step # added[2].step
  /\ steps["a"] = added[2].step /\ steps["b"] = added[3].step
  /\ start_step = "a"

\* ------------------------------------------------------------------- C23
\* the confirmation gate was consulted at the visit
Consulted(i) == trace[i].gate # "none"
\* _get_user_confirmation is entered
GateEntered == pc # "confirm" /\ pc' = "confirm"

\* C23: with interactive_mode true the confirmation gate is consulted
\* exactly once after every step that was executed without raising and is
\* not a USER_INPUT step, and never after a USER_INPUT step, a guard-skipped
\* step or a step whose execution raised; with interactive_mode false it is
\* never consulted.
C23_GateAfterExecutedSteps ==
  /\ [](\A i \in Visits :
          Consulted(i) <=> /\ interactive_mode
                           /\ trace[i].how = "returned"
                           /\ StepOf(i).step_type # "USER_INPUT")
  /\ [](pc = "confirm" <=> (Len(trace) > 0 /\ Pending(Len(trace))))
  /\ [](\A i \in Visits : Pending(i) => i = Len(trace))
  /\ [][GateEntered => /\ Len(trace') = Len(trace) + 1
                       /\ trace'[Len(trace')].gate = "asked"]_vars
  /\ [][\A i \in Visits : (~Pending(i) /\ i <= Len(trace')) =>
                              trace'[i].gate = trace[i].gate]_vars

\* an interactive run has ended in which a USER_INPUT step and a step that
\* raised went by without the gate and an executed step was accepted at it
C23_Witness ==
  /\ interactive_mode /\ pc = "returned"
  /\ \E i, j, k \in Visits :
       /\ StepOf(i).step_type = "USER_INPUT" /\ trace[i].how = "returned" /\ ~Consulted(i)
       /\ trace[j].how = "raised" /\ ~Consulted(j)
       /\ StepOf(k).step_type # "USER_INPUT" /\ trace[k].how = "returned" /\ trace[k].gate = "y"

\* ------------------------------------------------------------------- C24
\* the gate is open on a record that has a code field
GateOnCode == pc = "confirm" /\ "code" \in DOMAIN results[current_step_id]
\* the gate returns on the answer e
EditAccepted == pc = "confirm" /\ trace'[Len(trace)].gate = "e"
\* the gate reads the answer e and the lines after it, and asks again
EditRefused ==
  /\ pc = "confirm" /\ pc' = "confirm"
  /\ answers' # answers
  /\ answers'[Len(answers')].response = "e"
\* the code field of the record of the current step is replaced by the text
\* of some lines, and nothing else in the store changes
CodeReplaced(texts) ==
  \E lines \in EditLines :
    /\ JoinLines(lines) \in texts
    /\ results' = [results EXCEPT ![current_step_id].code = PyStr(JoinLines(lines))]
\* what the answer y does next
ProceedsAsAccepted ==
  /\ pc' = "running"
  /\ current_step_id' = NextAfterSuccess(results'[current_step_id], steps[current_step_id])
AllTexts == {JoinLines(lines) : lines \in EditLines}

\* C24 as stated: at the gate on a record with code, the answer e followed
\* by replacement lines and the line END replaces the code field of the
\* record of the current step by the entered text and proceeds as an accept
\* does, to next_step of the record or next_on_success of the step.
C24_EditReplacesAndProceeds ==
  [][ (GateOnCode /\ (EditAccepted \/ EditRefused)) =>
        (CodeReplaced(AllTexts) /\ ProceedsAsAccepted) ]_vars

\* C24 amended: the answer e followed by lines whose text is not empty
\* replaces the code field of the record of the current step by that text
\* and proceeds as an accept does; when the text of the lines is empty
\* nothing is replaced, the traversal stays at the step and the gate asks
\* again.
C24_NonEmptyEditReplacesAndProceeds ==
  [][ /\ (GateOnCode /\ EditAccepted) =>
           (CodeReplaced(AllTexts \ {""}) /\ ProceedsAsAccepted)
      /\ (GateOnCode /\ EditRefused) =>
           /\ JoinLines(answers'[Len(answers')].lines) = ""
           /\ results' = results
           /\ pc' = "confirm" /\ current_step_id' = current_step_id ]_vars

\* a run in which the code of a step was edited at the gate: the store
\* holds the two entered lines joined, not the code the step returned, and
\* the next step visited is the next_on_success of the edited step
C24_Witness ==
  \E i \in Visits :
    /\ trace[i].gate = "e"
    /\ i < Len(trace)
    /\ trace[i].rec.code # PyStr("c1\nc2")
    /\ results[trace[i].id].code = PyStr("c1\nc2")
    /\ trace[i + 1].id = StepOf(i).next_on_success
    /\ trace[i + 1].id # trace[i].id

\* ------------------------------------------------------------------- C25
\* condition strings that hold a placeholder
HasPlaceholder(cond) == cond.op \in {"ref", "not", "len"}
\* identifier and field of the placeholder are in the store
Present(cond, res) == cond.a \in DOMAIN res /\ cond.b \in DOMAIN res[cond.a]
\* the condition string with text in the place of its placeholder
WithText(cond, text) ==
  CASE cond.op = "ref" -> text
    [] cond.op = "not" -> "not " \o text
    [] cond.op = "len" -> "len(" \o text \o ") > 0"
\* the visits whose guard holds a placeholder, and the executed CONDITIONAL
\* and LOOP steps whose condition holds one
GuardRefs == {i \in Visits : HasPlaceholder(StepOf(i).condition)}
ControlRefs ==
  {i \in Visits : /\ trace[i].how = "returned"
                  /\ StepOf(i).step_type \in {"CONDITIONAL", "LOOP"}
                  /\ "condition" \in DOMAIN StepOf(i).arguments
                  /\ HasPlaceholder(StepOf(i).arguments.condition)}
Substituted(cond, res) ==
  EvalCondition(cond, res) =
    WithText(cond, IF Present(cond, res) THEN Repr(res[cond.a][cond.b]) ELSE "None")
\* the truth value the CONDITIONAL or LOOP step reported
Reported(i) ==
  IF StepOf(i).step_type = "CONDITIONAL" THEN trace[i].rec["condition"]
  ELSE trace[i].rec["loop"]

\* C25: the placeholder {identifier.field} of a condition string is replaced
\* by the literal of results[identifier][field] when identifier and field
\* exist and by the literal None when one of them is absent; a condition
\* that is just a reference to an absent identifier or field is false
\* without an evaluation error, and its negation is true.
C25_PlaceholderSubstitution ==
  /\ \A i \in GuardRefs :
       LET cond == StepOf(i).condition
           res == trace[i].before
       IN /\ Substituted(cond, res)
          /\ (cond.op = "ref" /\ ~Present(cond, res)) =>
               /\ trace[i].how = "skipped"
               /\ ResultsAfter(i) = res
          /\ (cond.op = "ref" /\ Present(cond, res)) =>
               (trace[i].how = "skipped" <=> ~Truthy(res[cond.a][cond.b]))
  /\ \A i \in ControlRefs :
       LET cond == StepOf(i).arguments.condition
           res == trace[i].before
       IN /\ Substituted(cond, res)
          /\ ~Present(cond, res) => Reported(i) = PyBool(cond.op = "not")
          /\ Present(cond, res) =>
               Reported(i) = PyBool((cond.op = "not") # Truthy(res[cond.a][cond.b]))

\* one run evaluated a reference to a step without a record, which gave
\* false without an error, and later the same reference with the record
\* there, which gave the truth of the field
C25_Witness ==
  \E i, j \in ControlRefs :
    /\ i < j /\ trace[i].id = trace[j].id
    /\ StepOf(i).arguments.condition.op = "ref"
    /\ StepOf(i).arguments.condition.a \notin DOMAIN trace[i].before
    /\ Reported(i) = PyBool(FALSE)
    /\ "error" \notin DOMAIN ResultsAfter(i)[trace[i].id]
    /\ Present(StepOf(j).arguments.condition, trace[j].before)
    /\ Reported(j) = PyBool(TRUE)

\* ------------------------------------------------------------------- C26
\* the records that are in the store before and after a step of the engine
\* and differ
Rewritten == {id \in DOMAIN results : id \in DOMAIN results' /\ results'[id] # results[id]}
\* nothing is removed from the store, and only the record of the step that is
\* being processed changes
StoreIsPerStep ==
  /\ DOMAIN results \subseteq DOMAIN results'
  /\ Rewritten \subseteq {current_step_id}
\* the step is executed: a visit is added that is not a skip
ExecutedNow ==
  /\ Len(trace') = Len(trace) + 1
  /\ trace'[Len(trace')].id = current_step_id
  /\ trace'[Len(trace')].how \in {"returned", "raised"}
\* the guard of the step raised: the visit is a skip, and the record keeps
\* its fields and has an error field added or replaced
GuardErrorMerged ==
  /\ Len(trace') = Len(trace) + 1
  /\ trace'[Len(trace')].how = "skipped"
  /\ \A k \in DOMAIN results[current_step_id] \ {"error"} :
       /\ k \in DOMAIN results'[current_step_id]
       /\ results'[current_step_id][k] = results[current_step_id][k]
  /\ DOMAIN results'[current_step_id] = DOMAIN results[current_step_id] \cup {"error"}
\* the gate, open on the record, stores an edit of its code field or the
\* error record of its own failure
ChangedAtGate ==
  /\ pc = "confirm"
  /\ \/ /\ trace'[Len(trace)].gate = "e"
        /\ \A k \in DOMAIN results[current_step_id] \ {"code"} :
             /\ k \in DOMAIN results'[current_step_id]
             /\ results'[current_step_id][k] = results[current_step_id][k]
        /\ DOMAIN results'[current_step_id] = DOMAIN results[current_step_id]
     \/ /\ trace'[Len(trace)].gate = "raised"
        /\ DOMAIN results'[current_step_id] = {"error"}

\* C26 as stated: no operation removes an identifier from results,
\* processing a step never changes the record of another identifier, and a
\* record once stored changes only by being overwritten when its step is
\* executed again.
C26_StoreChangesOnlyByExecution ==
  [][ /\ StoreIsPerStep
      /\ Rewritten # {} => ExecutedNow ]_vars

\* C26 amended: no operation removes an identifier from results, processing
\* a step never changes the record of another identifier, and a record once
\* stored changes only while its step is the one being processed: it is
\* overwritten when the step is executed again, it gets an error field
\* merged into it when the guard of the step raises, its code field is
\* replaced by an edit at the confirmation gate, and it is overwritten by an
\* error record when the gate itself raises.
C26_StoreChangesOnlyAtCurrentStep ==
  [][ /\ StoreIsPerStep
      /\ Rewritten # {} => (ExecutedNow \/ GuardErrorMerged \/ ChangedAtGate) ]_vars

\* a step was executed twice with another step in between: its record was
\* overwritten by the second execution and the record of the other step is
\* the one that step left
C26_Witness ==
  \E i, j, k \in Visits :
    /\ i < j /\ j < k /\ k = Len(trace) /\ pc = "returned"
    /\ trace[i].id = trace[k].id /\ trace[j].id # trace[i].id
    /\ trace[i].how = "returned" /\ trace[j].how = "returned" /\ trace[k].how = "returned"
    /\ trace[i].rec # trace[k].rec
    /\ trace[i].gate = "none" /\ trace[j].gate = "none" /\ trace[k].gate = "none"
    /\ results[trace[k].id] = trace[k].rec
    /\ results[trace[j].id] = trace[j].rec

\* ------------------------------------------------------------------- C27
\* the step is an unguarded LOOP whose body is an unguarded step with both
\* successors leading back to the LOOP step
LoopsBack(id) ==
  /\ steps[id].step_type = "LOOP" /\ steps[id].condition = NoCond
  /\ {"condition", "body_step"} \subseteq DOMAIN steps[id].arguments
  /\ LET body == steps[id].arguments.body_step
     IN /\ body \in DOMAIN steps
        /\ steps[body].step_type \notin {"LOOP", "CONDITIONAL"}
        /\ steps[body].condition = NoCond
        /\ steps[body].next_on_success = id /\ steps[body].next_on_failure = id
\* the condition of the LOOP step was true each time it was evaluated
StaysTrue(id) == \A i \in LoopVisits(id) : LoopHolds(i)
BodyVisits(id) == {i \in Visits : trace[i].id = steps[id].arguments.body_step}

\* C27: there is no iteration cap: while the condition of a LOOP step whose
\* body leads back to it has been true at every evaluation, execute() has
\* not returned, the traversal is at the LOOP step or at its body, and the
\* body has been executed once for every evaluation but possibly the last.
C27_NoIterationCap ==
  \A id \in DOMAIN steps :
    (LoopsBack(id) /\ ~interactive_mode /\ pc \in {"running", "returned", "raised"}
       /\ StaysTrue(id)) =>
      /\ pc = "running"
      /\ current_step_id \in {id, steps[id].arguments.body_step}
      /\ Cardinality(BodyVisits(id)) >= Cardinality(LoopVisits(id)) - 1
      /\ Len(trace) = Cardinality(BodyVisits(id)) + Cardinality(LoopVisits(id))

\* the traversal has gone round the loop as often as the bound on the visits
\* lets it, the body executed after every evaluation but the last, and is
\* still running
C27_Witness ==
  /\ "a" \in DOMAIN steps
  /\ LoopsBack("a") /\ StaysTrue("a") /\ pc = "running"
  /\ Len(trace) = MaxVisits
  /\ trace[1].id = "a"
  /\ Cardinality(LoopVisits("a")) = (MaxVisits + 1) \div 2
  /\ Cardinality(BodyVisits("a")) = MaxVisits \div 2

\* ------------------------------------------------------------------- C28
\* the dependencies whose source and target are both steps
StepDependencies ==
  {k \in 1..Len(dependencies) :
     /\ dependencies[k].source_task_id \in DOMAIN ctl_steps
     /\ dependencies[k].target_task_id \in DOMAIN ctl_steps}
DependsOn(a, b) ==
  \E k \in StepDependencies :
    dependencies[k].source_task_id = a /\ dependencies[k].target_task_id = b
\* there is a chain of n or fewer such dependencies from a to b
RECURSIVE Chain(_, _, _)
Chain(a, b, n) ==
  /\ n > 0
  /\ \/ DependsOn(a, b)
     \/ \E c \in DOMAIN ctl_steps : DependsOn(a, c) /\ Chain(c, b, n - 1)
Circular == \E a \in DOMAIN ctl_steps : Chain(a, a, Cardinality(DOMAIN ctl_steps))
PositionOf(id) == CHOOSE i \in 1..Len(step_order) : step_order[i] = id

\* C28: for a dependency list without a cycle, optimize_step_order leaves
\* in step_order each identifier of workflow.steps exactly once and nothing
\* else, the source of every dependency between two steps before its target.
C28_OrderRespectsDependencies ==
  (ctl_pc \in {"ordered", "order_failed"} /\ ~Circular) =>
    /\ ctl_pc = "ordered"
    /\ Len(step_order) = Cardinality(DOMAIN ctl_steps)
    /\ {step_order[i] : i \in 1..Len(step_order)} = DOMAIN ctl_steps
    /\ \A k \in StepDependencies :
         PositionOf(dependencies[k].source_task_id) < PositionOf(dependencies[k].target_task_id)

\* three steps were added in the order s, t, u and ordered under the
\* dependencies u before t, t before s and one on an identifier that is no
\* step: the order is now u, t, s
C28_Witness ==
  /\ ctl_pc = "ordered"
  /\ dependencies = <<Dependency("t", "s"), Dependency("u", "t"), Dependency("x", "s")>>
  /\ DOMAIN ctl_steps = {"s", "t", "u"}
  /\ step_order = <<"u", "t", "s">>

\* ------------------------------------------------------------------- C29
\* optimize_step_order is called and ends
OrderCalled == ctl_pc = "ready" /\ ctl_pc' \in {"ordered", "order_failed"}

\* C29: when the dependencies between steps of the workflow contain a
\* cycle, optimize_step_order raises the circular-dependency error and
\* leaves step_order and steps as they were.
C29_CycleRaisesAndKeepsOrder ==
  [][ (OrderCalled /\ Circular') =>
        /\ ctl_pc' = "order_failed"
        /\ step_order' = step_order
        /\ ctl_steps' = ctl_steps ]_vars

\* the call failed on the cycle t, u, t behind a dependency from s, and the
\* steps are still in the order in which they were added
C29_Witness ==
  /\ ctl_pc = "order_failed"
  /\ dependencies = <<Dependency("s", "t"), Dependency("t", "u"), Dependency("u", "t")>>
  /\ Circular
  /\ step_order = <<"u", "s", "t">>
  /\ DOMAIN ctl_steps = {"s", "t", "u"}

\* ------------------------------------------------------------------- C30
\* the steps a run can go to from a step: next_on_success, next_on_failure,
\* and body_step, which a LOOP result names as next_step (the next_step of a
\* CONDITIONAL result is one of the first two)
SuccessorsOf(id) ==
  ({steps[id].next_on_success, steps[id].next_on_failure}
     \cup (IF steps[id].step_type = "LOOP" /\ "body_step" \in DOMAIN steps[id].arguments
           THEN {steps[id].arguments.body_step} ELSE {}))
    \cap DOMAIN steps
RECURSIVE Reaches(_, _, _)
Reaches(a, b, n) ==
  /\ n > 0
  /\ \/ b \in SuccessorsOf(a)
     \/ \E c \in SuccessorsOf(a) : Reaches(c, b, n - 1)
\* no step can be reached twice
NoRevisit == \A id \in DOMAIN steps : ~Reaches(id, id, Cardinality(DOMAIN steps))
InExecute == pc \in {"running", "confirm"}
\* execute() has returned the results or failed on an identifier that is no step
Terminated == pc = "returned" \/ (pc = "raised" /\ outcome = "unknown_step")
TerminatesWithinSteps ==
  /\ [](NoRevisit => Len(trace) <= Cardinality(DOMAIN steps))
  /\ (InExecute /\ NoRevisit) ~> Terminated

\* C30 as stated: if no step can be reached twice and every input the
\* engine reads from the human arrives, execute() processes at most as many
\* steps as the workflow has and terminates, returning the results or
\* failing on a missing identifier.
C30_TerminatesWhenInputsArrive ==
  WF_vars(GateReads) => TerminatesWithinSteps

\* C30 amended: if no step can be reached twice, every line a USER_INPUT
\* step reads arrives and every confirmation is eventually answered by an
\* input the gate returns on (y, n, an edit with a non-empty replacement, or
\* the end of the input), execute() processes at most as many steps as the
\* workflow has and terminates, returning the results or failing on a
\* missing identifier.
C30_TerminatesWhenGateIsAnswered ==
  WF_vars(GateDecides) => TerminatesWithinSteps

\* an interactive run of a workflow without a cycle has returned after
\* processing each of its steps once, the gate accepted at one of them
C30_Witness ==
  /\ pc = "returned" /\ interactive_mode /\ NoRevisit
  /\ Len(trace) = Cardinality(DOMAIN steps) /\ Len(trace) = 2
  /\ trace[1].id # trace[2].id
  /\ \E i \in Visits : trace[i].gate = "y"

\* ------------------------------------------------------------------- C31
\* a CONDITIONAL or LOOP step returned a record whose next_step is None
AbsentBranch(i) ==
  /\ trace[i].how = "returned"
  /\ StepOf(i).step_type \in {"CONDITIONAL", "LOOP"}
  /\ "next_step" \in DOMAIN trace[i].rec
  /\ trace[i].rec["next_step"] = PyNone

\* C31: a next_step key that is present with the value None takes
\* precedence over next_on_success: after a CONDITIONAL step that took a
\* branch without successor, or a LOOP step that left with no
\* next_on_success, no further step is processed and the run returns (the
\* gate not consulted or answered by accept; answered by reject it returns
\* as well); the traversal does not go to next_on_success or next_on_failure.
C31_AbsentNextStepEnds ==
  \A i \in Visits :
    (AbsentBranch(i) /\ trace[i].gate \in {"none", "y", "n"}) =>
      /\ i = Len(trace)
      /\ pc \in {"running", "returned"}
      /\ pc = "running" => ~IsSet(current_step_id)
      /\ pc = "returned" => outcome \in {"finished", "rejected"}
      /\ trace[i].gate # "n" => NextOf(i) = None

\* a CONDITIONAL whose condition is true has no next_on_success but a
\* next_on_failure: the run returned after it, the other step not processed;
\* so does a LOOP whose condition is false
C31_Witness ==
  /\ pc = "returned" /\ outcome = "finished"
  /\ Len(trace) = 1 /\ AbsentBranch(1)
  /\ ~IsSet(StepOf(1).next_on_success) /\ StepOf(1).next_on_failure = "b"
  /\ "b" \in DOMAIN steps /\ "b" \notin DOMAIN results
  /\ \/ StepOf(1).step_type = "CONDITIONAL" /\ trace[1].rec["condition"] = PyBool(TRUE)
     \/ StepOf(1).step_type = "LOOP" /\ trace[1].rec["loop"] = PyBool(FALSE)

\* ------------------------------------------------------------------- C32
\* the step of the i-th visit returned a record without an error field,
\* which was stored
StoredSuccess(i) == trace[i].how = "returned" /\ "error" \notin DOMAIN trace[i].rec

\* C32: once a step has executed successfully and its record is stored, the
\* record is not replaced by an error record during the same visit: when the
\* confirmation fails, the record right after the visit is still the one
\* the step returned, and the traversal has not gone to next_on_failure
\* where the record and next_on_success lead elsewhere.
C32_GateFailureKeepsResult ==
  \A i \in Visits :
    (StoredSuccess(i) /\ trace[i].gate = "raised") =>
      /\ ResultsAfter(i)[trace[i].id] = trace[i].rec
      /\ NextAfterSuccess(trace[i].rec, StepOf(i)) # StepOf(i).next_on_failure
           => NextOf(i) # StepOf(i).next_on_failure

\* ------------------------------------------------------------------- C33
\* the files right after the i-th visit
FilesAfter(i) == IF i < Len(trace) THEN trace[i + 1].files ELSE files

\* a FILE_OPERATION write step returned an error result
FailedWrite(i) ==
  /\ StepOf(i).step_type = "FILE_OPERATION"
  /\ Get(StepOf(i).arguments, "operation", None) = "write"
  /\ trace[i].how = "returned"
  /\ "error" \in DOMAIN trace[i].rec

\* C33: a FILE_OPERATION write step that returns an error result leaves the
\* files as they were before the step, the target neither created nor
\* truncated.
C33_FailedWriteLeavesFile == \A i \in Visits : FailedWrite(i) => FilesAfter(i) = trace[i].files

\* ------------------------------------------------------------------- C34
\* the gate is left by a return of _get_user_confirmation, not by an exception
GateReturns ==
  /\ pc = "confirm" /\ pc' # "confirm"
  /\ trace'[Len(trace')].gate # "raised"
\* the gate has read an input and neither returned nor raised
GateGoesOn == pc = "confirm" /\ answers' # answers /\ answers' # <<>>
LastAnswer == answers'[Len(answers')]
NonEmptyTexts == {JoinLines(lines) : lines \in EditLines} \ {""}

\* C34: the confirmation gate returns only on accept (y), on reject (n) or
\* on an edit that supplies a non-empty replacement for a record that has a
\* code field; every other input (an answer that is none of y, n, e; e on a
\* record without code; e with an empty replacement) leaves the results,
\* the current step and the visit unchanged and the gate asking, however
\* many such inputs arrive.
C34_GateReturnsOnlyOnDecision ==
  [][/\ GateReturns =>
          /\ trace'[Len(trace')].gate \in {"y", "n", "e"}
          /\ trace'[Len(trace')].gate = "e" =>
               /\ "code" \in DOMAIN results[current_step_id]
               /\ results'[current_step_id]["code"].v \in NonEmptyTexts
     /\ GateGoesOn =>
          /\ LastAnswer.response \notin {"y", "n"}
          /\ LastAnswer.response = "e" =>
               \/ "code" \notin DOMAIN results[current_step_id]
               \/ JoinLines(LastAnswer.lines) = ""
          /\ pc' = "confirm"
          /\ results' = results
          /\ current_step_id' = current_step_id
          /\ trace' = trace
     /\ (pc = "confirm" /\ pc' = "confirm") => GateGoesOn]_vars

\* the gate is still asking on a record with code after an edit whose
\* replacement is one empty line
C34_Witness ==
  /\ pc = "confirm"
  /\ "code" \in DOMAIN results[current_step_id]
  /\ answers = <<[response |-> "e", lines |-> <<"">>]>>
  /\ trace[Len(trace)].gate = "asked"

\* ------------------------------------------------------------------- C35
\* the workflow is what from_dict made of a document, no step added since
Loaded == doc # NoDoc /\ added = <<>>
\* the workflow is what add_step calls made, no document loaded
Built == doc = NoDoc /\ added # <<>>
\* from_dict takes start_step from the document alone
StartIsFromDocument == Loaded => start_step = Get(doc, "start_step", None)
\* execute() without start_from on a loaded workflow that has steps and no
\* start_step fails with the no-start-step error
LoadedWithoutStartFails ==
  (Called /\ ~IsSet(start_from') /\ Loaded /\ DOMAIN steps # {}
     /\ Get(doc, "start_step", None) = None) =>
    pc' = "raised" /\ outcome' = "no_start" /\ trace' = <<>>
StartsAt(id) == pc' = "running" /\ current_step_id' = id /\ id \in DOMAIN steps

\* C35 as stated: from_dict takes start_step only from the document: a
\* workflow decoded from a document with steps and an absent or null
\* start_step has no start_step, and execute() without start_from fails on it
\* with the no-start-step error, whereas steps added through add_step start
\* at the first added step.
C35_StartOnlyFromDocument ==
  /\ []StartIsFromDocument
  /\ [][LoadedWithoutStartFails]_vars
  /\ [][(Called /\ ~IsSet(start_from') /\ Built) => StartsAt(added[1].id)]_vars

\* C35 amended: from_dict takes start_step only from the document: a
\* workflow decoded from a document with steps and an absent or null
\* start_step has no start_step, and execute() without start_from fails on it
\* with the no-start-step error, whereas steps added through add_step start
\* at the first step added under an identifier that is not empty; when every
\* step was added under the empty identifier, execute() without start_from
\* fails with the no-start-step error as well.
C35_StartFromDocumentOrFirstNamed ==
  /\ []StartIsFromDocument
  /\ [][LoadedWithoutStartFails]_vars
  /\ [][(Called /\ ~IsSet(start_from') /\ Built) =>
          IF NamedAdds = {}
          THEN pc' = "raised" /\ outcome' = "no_start"
          ELSE StartsAt(added[CHOOSE k \in NamedAdds : \A j \in NamedAdds : k <= j].id)]_vars

\* execute() failed for want of a start on the workflow loaded from the
\* document that has the steps a and b and no start_step key
C35_Witness ==
  /\ Loaded /\ DOMAIN steps = {"a", "b"} /\ "start_step" \notin DOMAIN doc
  /\ start_step = None
  /\ pc = "raised" /\ outcome = "no_start" /\ ~IsSet(start_from) /\ runs = 1

\* ------------------------------------------------------------------- C36
\* the passes of the loop of the current execute() call
CtlPasses == 1..Len(ctl_trace)

\* the steps were executed in the order of step_order, one pass each
RunsInOrder ==
  /\ Len(ctl_trace) <= Len(step_order)
  /\ \A k \in CtlPasses : ctl_trace[k].id = step_order[k]

\* the results hold an entry for each executed step and for no other, and
\* every entry but the last reports success
EntriesUpToFailure ==
  /\ DOMAIN ctl_results = {step_order[k] : k \in CtlPasses}
  /\ \A k \in CtlPasses : k < Len(ctl_trace) => ctl_results[step_order[k]].success

\* execute() returned after a failing step or after the last step
StopsAtFirstFailure ==
  ctl_pc = "returned" =>
    \/ Len(ctl_trace) = Len(step_order)
    \/ /\ Len(ctl_trace) > 0
       /\ ~ctl_results[step_order[Len(ctl_trace)]].success

\* the steps that were not executed are as they were when execute() was
\* entered
LaterStepsUntouched ==
  \A k \in 1..Len(step_order) :
    (k > Len(ctl_trace) /\ Len(ctl_trace) > 0) =>
      ctl_steps[step_order[k]] = ctl_trace[1].steps[step_order[k]]

\* C36: WorkflowController.execute() runs the steps in step_order order
\* and stops at the first step whose execute returns false: the results
\* hold an entry for every step up to and including the first failing one
\* and for no later step, every entry except possibly the last has success
\* true, and the steps after the failing one are not executed and keep the
\* status they had.
C36_StopsAtFirstFailure ==
  (ctl_pc \in {"running", "returned"}) =>
    /\ RunsInOrder
    /\ EntriesUpToFailure
    /\ StopsAtFirstFailure
    /\ LaterStepsUntouched

\* the second execute() returned after its first step failed: the step
\* after it was not executed and is still completed from the first call
C36_Witness ==
  /\ ctl_pc = "returned" /\ Len(step_order) = 2 /\ Len(ctl_trace) = 1
  /\ DOMAIN ctl_results = {step_order[1]}
  /\ ~ctl_results[step_order[1]].success
  /\ ctl_steps[step_order[1]].status = "failed"
  /\ ctl_steps[step_order[2]].status = "completed"

\* ------------------------------------------------------------------- C37
\* the entry execute() of the controller made for an executed step: the
\* value step.execute returned, and the status and error it left
StatusMatchesReturn(r) ==
  /\ r.status = "completed" <=> r.success
  /\ r.status = "failed" <=> ~r.success
  /\ r.status = "failed" => r.error # PyNone

\* C37: after execute(context) of a CodeGenerationStep or FileOperationStep
\* returns, the status of the step is COMPLETED exactly when it returned
\* true and FAILED exactly when it returned false, with error set when it
\* is FAILED; no step is IN_PROGRESS after execute returned, also when the
\* model call or the file access raised, and no step is ever SKIPPED.
C37_StatusMatchesReturn ==
  /\ \A id \in DOMAIN ctl_results :
       /\ StatusMatchesReturn(ctl_results[id])
       /\ ctl_steps[id].status = ctl_results[id].status
  /\ \A id \in DOMAIN ctl_steps : ctl_steps[id].status \in {"pending", "completed", "failed"}

\* a generation step completed and the step after it failed on a file
\* access that raised; a step that was not reached is still pending
C37_Witness ==
  /\ ctl_pc = "returned" /\ Len(ctl_trace) = 2
  /\ ctl_steps[step_order[1]].type = "code_generation"
  /\ ctl_results[step_order[1]].success /\ ctl_results[step_order[1]].status = "completed"
  /\ ~ctl_results[step_order[2]].success /\ ctl_results[step_order[2]].status = "failed"
  /\ ctl_results[step_order[2]].error \in {PyStr("file read error"), PyStr("file write error"),
                                           PyStr("mkdir error")}

\* ------------------------------------------------------------------- C38
NoDuplicate(order) ==
  \A i, j \in 1..Len(order) : order[i] = order[j] => i = j
IdsOf(order) == {order[i] : i \in 1..Len(order)}

\* C38: after any sequence of add_step, optimize_step_order and from_dict
\* calls, step_order holds no identifier twice and its identifiers are the
\* keys of steps, so execute() never looks up an identifier that has no
\* step.
C38_StepOrderMatchesSteps ==
  /\ NoDuplicate(step_order)
  /\ IdsOf(step_order) = DOMAIN ctl_steps
  /\ ctl_pc # "raised"

\* ------------------------------------------------------------------- C39
\* C39: for every max_retries and every behaviour of call_func,
\* safe_api_call either returns the value of an invocation of call_func
\* that succeeded or raises the error of the last invocation, which failed;
\* it never returns without call_func having succeeded.
C39_ReturnsOnlyAfterSuccess ==
  /\ api_pc = "returned" =>
       /\ calls # <<>>
       /\ calls[Len(calls)].ok
       /\ api_result = calls[Len(calls)].v
  /\ api_pc = "raised" =>
       /\ calls # <<>>
       /\ ~calls[Len(calls)].ok
       /\ api_result = calls[Len(calls)].v
====
